---- MODULE Spec2Model ----
(***************************************************************************)
(* Model of the physics / collision core of the infinite runner            *)
(* (src/src/physics.rs).                                                   *)
(*                                                                         *)
(* Numbers.  i32 values are integers.  f64 values are fixed-point          *)
(* integers counting 1/Scale units (Fx(n) is the f64 n.0); an f64 division *)
(* is a division truncated toward zero at that resolution.  Angles are     *)
(* counted in units of PI/180, so 2*PI is FullTurn = 360 and OMEGA is 10.  *)
(* Masses are whole numbers.                                               *)
(***************************************************************************)
EXTENDS Integers, Sequences, FiniteSets, TLC

(***************************************************************************)
(* Bounds of the model                                                     *)
(***************************************************************************)
\* fixed-point resolution of the f64 quantities (units per 1.0)
Scale == 60
\* number of operations applied to the initial scenario
MaxSteps == 2

(***************************************************************************)
(* Program constants                                                       *)
(***************************************************************************)
TILE_SIZE == 100
LOWER_SPEED == -5
UPPER_SPEED == 8
\* OMEGA = PI / 18.0 in angle units of PI/180
OMEGA == 10
\* 2.0 * PI in angle units of PI/180
FullTurn == 360
\* the literal 360.0 (radians) of collide_obstacle in angle units of PI/180:
\* 360 * 180 / PI = 20626.48..., rounded down; thetas are whole units, so
\* theta > 360.0 - 6*OMEGA is exactly theta > Rad360 - 6*OMEGA
Rad360 == 20626
\* max_int_value() = i32::MAX / 2 and min_int_value() = i32::MIN / 2
MaxIntValue == 1073741823
MinIntValue == -1073741824
\* i32::MAX, and i32::MIN written from it
I32Max == 2147483647
I32Min == (0 - I32Max) - 1

(***************************************************************************)
(* Arithmetic helpers                                                      *)
(***************************************************************************)
Abs(a) == IF a < 0 THEN 0 - a ELSE a

\* integer division truncated toward zero (Rust `/` on i32, and the
\* fixed-point rendering of an f64 division)
TruncDiv(a, b) ==
    IF (a >= 0) = (b > 0) THEN Abs(a) \div Abs(b) ELSE 0 - (Abs(a) \div Abs(b))

\* remainder with the sign of the dividend (Rust `%`)
TruncRem(a, b) == a - b * TruncDiv(a, b)

\* f64::clamp
Clamp(v, lo, hi) == IF v < lo THEN lo ELSE IF v > hi THEN hi ELSE v

\* the f64 n.0 as a fixed-point value
Fx(n) == n * Scale

\* `f as i32`: truncation toward zero, saturating at the i32 range
AsI32(f) == Clamp(TruncDiv(f, Scale), I32Min, I32Max)

\* i32 `a - b` and `a + b` leave the i32 range (a panic where overflow
\* checks are compiled in)
SubOverflows(a, b) ==
    \/ b < 0 /\ a > I32Max + b
    \/ b > 0 /\ a < I32Min + b

AddOverflows(a, b) ==
    \/ b > 0 /\ a > I32Max - b
    \/ b < 0 /\ a < I32Min - b

\* i32 `a - b` where overflow checks are compiled out: the difference
\* modulo 2^32, written so that no intermediate value leaves the i32 range
WrappingSub(a, b) ==
    IF b < 0 /\ a > I32Max + b THEN (a + I32Min) + (I32Min - b)
    ELSE IF b > 0 /\ a < I32Min + b THEN ((a + I32Max) + 1) + ((I32Max - b) + 1)
    ELSE a - b

(***************************************************************************)
(* sin and cos, tabulated in 1/TrigUnit for the multiples of ten angle     *)
(* units; a product with one of them is truncated toward zero.  The table  *)
(* is exact at the quarter turns, where the f64 values are off by less     *)
(* than 2^-52.                                                             *)
(***************************************************************************)
TrigUnit == 1000

\* sin of 0, 10, ..., 90 angle units
SinTable == << 0, 174, 342, 500, 643, 766, 866, 940, 985, 1000 >>

Sin(a) ==
    LET m == ((a % FullTurn) + FullTurn) % FullTurn
        q(d) == SinTable[(d \div 10) + 1]
    IN  IF m <= 90 THEN q(m)
        ELSE IF m <= 180 THEN q(180 - m)
        ELSE IF m <= 270 THEN 0 - q(m - 180)
        ELSE 0 - q(FullTurn - m)

Cos(a) == Sin(a + 90)

\* f * sin or f * cos, f a fixed-point value and t a table entry
TrigMul(f, t) == TruncDiv(f * t, TrigUnit)

\* floor of the square root, by bisection on [lo, hi] (lo * lo <= n)
RECURSIVE IsqrtIn(_, _, _)
IsqrtIn(n, lo, hi) ==
    IF lo >= hi THEN lo
    ELSE LET mid == (lo + hi + 1) \div 2
         IN  IF mid * mid <= n THEN IsqrtIn(n, mid, hi) ELSE IsqrtIn(n, lo, mid - 1)

\* floor of the square root of n < 2^31
Isqrt(n) == IsqrtIn(n, 0, 46340)

(***************************************************************************)
(* PhysRect                                                                *)
(***************************************************************************)
clamp_position(val) ==
    IF val > MaxIntValue THEN MaxIntValue
    ELSE IF val < MinIntValue THEN MinIntValue
    ELSE val

\* a size clamp that lets a zero size through
clamp_size_upper(val) == IF val > MaxIntValue THEN MaxIntValue ELSE val

clamp_size(val) ==
    IF val = 0 THEN 1
    ELSE IF val > MaxIntValue THEN MaxIntValue
    ELSE val

\* sdl2 Point::new / Point::offset as used on the corners: the sum (the
\* range end on the side of d where checked_add fails), clamped to the point
\* range
Pt(px, py) == [x |-> clamp_position(px), y |-> clamp_position(py)]

CheckedOffset(v, d) ==
    IF AddOverflows(v, d) THEN (IF d < 0 THEN MinIntValue ELSE MaxIntValue) ELSE v + d

PointOffset(p, dx, dy) == Pt(CheckedOffset(p.x, dx), CheckedOffset(p.y, dy))

PhysRectNew(x0, y0, width, height) ==
    LET x == clamp_position(x0)
        y == clamp_position(y0)
        w == clamp_size(width)
        h == clamp_size(height)
    IN  [x |-> x, y |-> y, w |-> w, h |-> h, theta |-> 0,
         coords |-> << Pt(x, y), Pt(x + w, y), Pt(x + w, y + h), Pt(x, y + h) >>]

set_x(r, x) ==
    LET d == WrappingSub(x, r.x)
    IN  [r EXCEPT !.x = clamp_position(x),
                  !.coords = [i \in 1..4 |-> PointOffset(r.coords[i], d, 0)]]

set_y(r, y) ==
    LET d == WrappingSub(y, r.y)
    IN  [r EXCEPT !.y = clamp_position(y),
                  !.coords = [i \in 1..4 |-> PointOffset(r.coords[i], 0, d)]]

RectCenter(r) ==
    [x |-> TruncDiv(r.coords[1].x + r.coords[3].x, 2),
     y |-> TruncDiv(r.coords[1].y + r.coords[3].y, 2)]

\* set_angle and rotate of PhysRect: every corner is turned about center()
\* and cast back to i32; theta is an angle in angle units
rect_rotate(r, theta) ==
    LET c == RectCenter(r)
        turned(p) ==
            Pt(TruncDiv(Cos(theta) * (p.x - c.x) - Sin(theta) * (p.y - c.y)
                            + c.x * TrigUnit, TrigUnit),
               TruncDiv(Sin(theta) * (p.x - c.x) + Cos(theta) * (p.y - c.y)
                            + c.y * TrigUnit, TrigUnit))
        coords == [i \in 1..4 |-> turned(r.coords[i])]
    IN  [r EXCEPT !.coords = coords, !.theta = theta,
                  !.x = coords[1].x, !.y = coords[1].y]

set_angle(r, theta) == rect_rotate(r, theta - r.theta)

set_height(r, height) == [r EXCEPT !.h = clamp_size(height)]

\* center_on: the offset corners are computed on copies and dropped
center_on(r, x, y) == [r EXCEPT !.x = r.coords[1].x, !.y = r.coords[1].y]

\* from_center: a rectangle at the origin, then center_on
from_center(center, width, height) ==
    LET w == clamp_size(width)
        h == clamp_size(height)
    IN  center_on([x |-> 0, y |-> 0, w |-> w, h |-> h, theta |-> 0,
                   coords |-> << Pt(0, 0), Pt(w, 0), Pt(w, h), Pt(0, h) >>],
                  center.x, center.y)

\* the position offset stores for a coordinate v moved by d
offset_position(v, d) ==
    IF AddOverflows(v, d) THEN (IF d >= 0 THEN MaxIntValue ELSE I32Min)
    ELSE clamp_position(v + d)

offset(r, x, y) ==
    LET nx == offset_position(r.x, x)
        ny == offset_position(r.y, y)
        d_x == WrappingSub(r.x, nx)
        d_y == WrappingSub(r.x, ny)
    IN  [r EXCEPT !.x = nx, !.y = ny,
                  !.coords = [i \in 1..4 |-> PointOffset(r.coords[i], d_x, d_y)]]

\* `old_x - self.x` or `old_x - self.y` of offset leaves the i32 range
offset_overflows(r, x, y) ==
    \/ SubOverflows(r.x, offset_position(r.x, x))
    \/ SubOverflows(r.x, offset_position(r.y, y))

reposition(r, x, y) ==
    LET nx == clamp_position(x)
        ny == clamp_position(y)
        d_x == WrappingSub(r.x, nx)
        d_y == WrappingSub(r.x, ny)
    IN  [r EXCEPT !.x = nx, !.y = ny,
                  !.coords = [i \in 1..4 |-> PointOffset(r.coords[i], d_x, d_y)]]

reposition_overflows(r, x, y) ==
    \/ SubOverflows(r.x, clamp_position(x))
    \/ SubOverflows(r.x, clamp_position(y))

\* u32 `a - b` for a, b up to i32::MAX; a negative value d stands for the
\* wrapped difference 2^32 + d
U32Delta(a, b) == a - b

\* floor(v * t / TrigUnit) for 0 <= v <= i32::MAX and 0 <= t <= TrigUnit
MulTrigAbs(v, t) == (v \div TrigUnit) * t + ((v % TrigUnit) * t) \div TrigUnit

\* floor((2^32 + d) * t / TrigUnit), capped at i32::MAX, for d < 0 and
\* 0 <= t <= TrigUnit
MulTrigWrapped(d, t) ==
    LET v == (I32Max + d) + 1
        q == (v \div TrigUnit) + (I32Max \div TrigUnit)
        m == (v % TrigUnit) + (I32Max % TrigUnit) + 1
    IN  IF t = 0 THEN 0
        ELSE IF q > I32Max \div t THEN I32Max
        ELSE IF (m * t) \div TrigUnit > I32Max - q * t THEN I32Max
        ELSE q * t + (m * t) \div TrigUnit

\* `(d as f64 * trig) as i32` for a u32 difference d and a table entry t
DeltaTrig(d, t) ==
    LET a == IF d < 0 THEN MulTrigWrapped(d, Abs(t)) ELSE MulTrigAbs(d, Abs(t))
    IN  IF t < 0 THEN 0 - a ELSE a

\* `(dist * trig) as i32`, dist = sqrt(d_w^2 + d_h^2): computed at the
\* fixed-point resolution for differences up to 500; beyond that by the
\* larger of the two differences (a wrapped one first), which is the value of
\* the cast where it saturates or where trig is 0
DistTrig(d_w, d_h, t) ==
    IF d_w >= 0 /\ d_w <= 500 /\ d_h >= 0 /\ d_h <= 500
    THEN TruncDiv(Isqrt((d_w * d_w + d_h * d_h) * Scale * Scale) * t, TrigUnit * Scale)
    ELSE IF d_w < 0 \/ d_h < 0 THEN DeltaTrig(IF d_w < d_h THEN d_w ELSE d_h, t)
    ELSE DeltaTrig(IF d_w > d_h THEN d_w ELSE d_h, t)

resize(r, width, height) ==
    LET d_w == U32Delta(width, r.w)
        d_h == U32Delta(height, r.h)
        c == Cos(r.theta)
        s == Sin(r.theta)
    IN  [r EXCEPT !.coords = << r.coords[1],
                                PointOffset(r.coords[2], DeltaTrig(d_w, c), DeltaTrig(d_w, s)),
                                PointOffset(r.coords[3], DistTrig(d_w, d_h, c),
                                            DistTrig(d_w, d_h, s)),
                                PointOffset(r.coords[4], DeltaTrig(d_h, c), DeltaTrig(d_w, s)) >>,
                  !.w = clamp_size(width),
                  !.h = clamp_size(height)]

\* `width - self.width()` or `height - self.height()` of resize goes below 0
resize_underflows(r, width, height) == width < r.w \/ height < r.h

\* an edge test that counts a point on the edge as left of it
EdgeCrossesInclusive(r, i, j, px, py) ==
    /\ (r.coords[i].y > py) # (r.coords[j].y > py)
    /\ px <= TruncDiv((r.coords[j].x - r.coords[i].x) * (py - r.coords[i].y),
                      r.coords[j].y - r.coords[i].y) + r.coords[i].x

\* one edge test of the even-odd rule; j is the corner before i
EdgeCrosses(r, i, j, px, py) ==
    /\ (r.coords[i].y > py) # (r.coords[j].y > py)
    /\ px < TruncDiv((r.coords[j].x - r.coords[i].x) * (py - r.coords[i].y),
                     r.coords[j].y - r.coords[i].y) + r.coords[i].x

contains_point(r, p) ==
    LET prev(i) == IF i = 1 THEN 4 ELSE i - 1
        n == Cardinality({i \in 1..4 : EdgeCrosses(r, i, prev(i), p.x, p.y)})
    IN  n % 2 = 1

\* an intersection test that looks for corners of other in r only
has_intersection_one_way(r, other) == \E i \in 1..4 : contains_point(r, other.coords[i])

has_intersection(r, other) ==
    \/ \E i \in 1..4 : contains_point(r, other.coords[i])
    \/ \E i \in 1..4 : contains_point(other, r.coords[i])

\* PhysRect::bottom keeps the last corner whose y is <= the running one
RECURSIVE BottomFrom(_, _, _)
BottomFrom(r, i, best) ==
    IF i > 4 THEN best
    ELSE BottomFrom(r, i + 1, IF r.coords[i].y <= best.y THEN r.coords[i] ELSE best)

RectBottom(r) == BottomFrom(r, 1, r.coords[1])

\* PhysRect::top keeps the last corner whose y is <= the running one
RECURSIVE TopFrom(_, _, _)
TopFrom(r, i, best) ==
    IF i > 4 THEN best
    ELSE TopFrom(r, i + 1, IF r.coords[i].y <= best.y THEN r.coords[i] ELSE best)

RectTop(r) == TopFrom(r, 1, r.coords[1])

\* midpoint of the edge that ends in corner i (j is the corner before i)
Midpoint(other, i) ==
    LET j == IF i = 1 THEN 4 ELSE i - 1
    IN  [x |-> TruncDiv(other.coords[i].x + other.coords[j].x, 2),
         y |-> TruncDiv(other.coords[i].y + other.coords[j].y, 2)]

\* squared distance; the code compares the square roots, which order the
\* same way
Dist2(a, b) == (a.x - b.x) * (a.x - b.x) + (a.y - b.y) * (a.y - b.y)

\* the scan of nearest_side over the 16 (corner, midpoint) pairs in loop
\* order; k = 0..15, acc = [min, side], min = -1 standing for f64::MAX
RECURSIVE NearestScan(_, _, _, _)
NearestScan(r, other, k, acc) ==
    IF k > 15 THEN acc.side
    ELSE LET i == (k \div 4) + 1
             m == (k % 4) + 1
             d == Dist2(r.coords[i], Midpoint(other, m))
         IN  NearestScan(r, other, k + 1,
                         IF acc.min = -1 \/ d <= acc.min
                         THEN [min |-> d, side |-> i - 1]
                         ELSE acc)

nearest_side(r, other) == NearestScan(r, other, 0, [min |-> -1, side |-> 0])

(***************************************************************************)
(* Entities.  A player is a record                                         *)
(*   [pos, velocity, accel : pairs of fixed-point values, hitbox,          *)
(*    theta, omega : angle units, mass, power_up : "None" or a PowerType,  *)
(*    lock_jump_time, jumping, flipping],                                  *)
(* an obstacle [pos, velocity, accel, hitbox, mass, obstacle_type, theta,  *)
(* omega, collided], a coin [pos, hitbox, collected] and a power           *)
(* [pos, hitbox, power_type, collected] (their pos is a pair of i32).      *)
(***************************************************************************)
ObstacleTypes == {"Statue", "Chest", "Balloon"}
PowerTypes == {"SpeedBoost", "ScoreMultiplier", "BouncyShoes", "LowerGravity", "Shield"}

PlayerNew(hitbox, mass) ==
    [pos |-> << Fx(hitbox.x), Fx(hitbox.y) >>,
     velocity |-> << 0, 0 >>, accel |-> << 0, 0 >>,
     hitbox |-> hitbox, theta |-> 0, omega |-> 0, mass |-> mass,
     power_up |-> "None", lock_jump_time |-> FALSE,
     jumping |-> TRUE, flipping |-> FALSE]

ObstacleNew(hitbox, mass, obstacle_type) ==
    [pos |-> << Fx(hitbox.x), Fx(hitbox.y) >>,
     velocity |-> << 0, 0 >>, accel |-> << 0, 0 >>,
     hitbox |-> hitbox, mass |-> mass, obstacle_type |-> obstacle_type,
     theta |-> 0, omega |-> 0, collided |-> FALSE]

CoinNew(hitbox) ==
    [pos |-> << hitbox.x, hitbox.y >>, hitbox |-> hitbox, collected |-> FALSE]

PowerNew(hitbox, power_type) ==
    [pos |-> << hitbox.x, hitbox.y >>, hitbox |-> hitbox,
     power_type |-> power_type, collected |-> FALSE]

\* align_hitbox_to_pos of Player and Obstacle (pos is f64)
align_hitbox_to_pos(e) ==
    [e EXCEPT !.hitbox = set_y(set_x(e.hitbox, AsI32(e.pos[1])), AsI32(e.pos[2]))]

\* align_hitbox_to_pos of Coin and Power (pos is i32)
align_hitbox_to_pos_i(c) ==
    [c EXCEPT !.hitbox = set_y(set_x(c.hitbox, c.pos[1]), c.pos[2])]

\* camera_adj of Player and Obstacle
camera_adj(e, x_adj, y_adj) ==
    align_hitbox_to_pos([e EXCEPT !.pos = << e.pos[1] + Fx(x_adj), e.pos[2] + Fx(y_adj) >>])

\* camera_adj of Coin and Power
camera_adj_i(c, x_adj, y_adj) ==
    align_hitbox_to_pos_i([c EXCEPT !.pos = << c.pos[1] + x_adj, c.pos[2] + y_adj >>])

\* Obstacle::travel_update
travel_update(o, travel_adj) == [o EXCEPT !.pos[1] = o.pos[1] - Fx(travel_adj)]

\* Coin::travel_update and Power::travel_update
travel_update_i(c, travel_adj) == [c EXCEPT !.pos[1] = c.pos[1] - travel_adj]

hard_set_pos(e, pos) == [e EXCEPT !.pos = pos]
hard_set_vel(e, vel) == [e EXCEPT !.velocity = vel]

apply_force(e, force) ==
    [e EXCEPT !.accel = << e.accel[1] + TruncDiv(force[1], e.mass),
                           e.accel[2] + TruncDiv(force[2], e.mass) >>]

reset_accel(e) == [e EXCEPT !.accel = << 0, 0 >>]

set_power_up(p, power_up) == [p EXCEPT !.power_up = power_up]

stop_flipping(p) == [p EXCEPT !.flipping = FALSE, !.omega = 0]
resume_flipping(p) == [p EXCEPT !.flipping = TRUE, !.omega = OMEGA]

\* Body::rotate of the player
rotate(p) == [p EXCEPT !.theta = TruncRem(p.theta - p.omega + FullTurn, FullTurn)]

flip(p) == IF p.flipping THEN rotate(p) ELSE p

\* collect that flips the flag instead of setting it
collect_toggle(c) == [c EXCEPT !.collected = ~c.collected]

\* Collectible::collect of Coin and Power
collect(c) == [c EXCEPT !.collected = TRUE]

\* update_vel with the vertical clamp applied before the acceleration is added
update_vel_clamp_first(p, game_over) ==
    [p EXCEPT !.velocity =
        << IF game_over
           THEN Clamp(p.velocity[1] + p.accel[1], Fx(LOWER_SPEED), Fx(UPPER_SPEED))
           ELSE Clamp(p.velocity[1] + p.accel[1], Fx(1), Fx(UPPER_SPEED)),
           Clamp(p.velocity[2], 3 * Fx(LOWER_SPEED), 5 * Fx(UPPER_SPEED)) + p.accel[2] >>]

\* Player::update_vel
update_vel(p, game_over) ==
    [p EXCEPT !.velocity =
        << IF game_over
           THEN Clamp(p.velocity[1] + p.accel[1], Fx(LOWER_SPEED), Fx(UPPER_SPEED))
           ELSE Clamp(p.velocity[1] + p.accel[1], Fx(1), Fx(UPPER_SPEED)),
           Clamp(p.velocity[2] + p.accel[2], 3 * Fx(LOWER_SPEED), 5 * Fx(UPPER_SPEED)) >>]

\* Obstacle::update_vel
obstacle_update_vel(o, game_over) ==
    [o EXCEPT !.velocity = << Clamp(o.velocity[1] + o.accel[1], Fx(-20), Fx(20)),
                              Clamp(o.velocity[2] + o.accel[2], Fx(-20), Fx(20)) >>]

\* Player::update_pos
update_pos(p, ground, angle, game_over) ==
    LET grounded == contains_point(p.hitbox, ground)
        p1 == IF grounded THEN [p EXCEPT !.theta = angle] ELSE p
        p2 == [p1 EXCEPT !.pos[2] = p1.pos[2] - p1.velocity[2]]
        p3 == IF grounded /\ ~game_over
              THEN [p2 EXCEPT !.theta = angle,
                              !.jumping = FALSE,
                              !.lock_jump_time = IF p2.jumping THEN FALSE ELSE @]
              ELSE p2
    IN  align_hitbox_to_pos(p3)

\* Obstacle::update_pos
obstacle_update_pos(o, ground, angle, game_over) ==
    LET o1 == IF contains_point(o.hitbox, ground) /\ ~game_over
              THEN [o EXCEPT !.theta = angle] ELSE o
    IN  align_hitbox_to_pos([o1 EXCEPT !.pos = << o1.pos[1] + o1.velocity[1],
                                                  o1.pos[2] - o1.velocity[2] >>])

\* Physics::check_player_upright
check_player_upright(p, angle, ground) ==
    \/ ~contains_point(p.hitbox, ground)
    \/ p.theta < OMEGA * 6 + angle
    \/ p.theta > FullTurn - OMEGA * 6 + angle

\* Physics::apply_bounce: k = 0.2, so the force is displacement / 5
apply_bounce(p, body) ==
    IF has_intersection(p.hitbox, body.hitbox)
    THEN LET displacement == RectBottom(p.hitbox).y - RectBottom(body.hitbox).y
         IN  apply_force(p, << 0, TruncDiv(Fx(displacement), 5) >>)
    ELSE p

\* the upward force of a jump held for duration milliseconds
jump_force(duration) ==
    IF duration <= 100 THEN << 0, Fx(60) >>
    ELSE IF duration <= 200 THEN << 0, Fx(80) >>
    ELSE << 0, Fx(100) >>

\* a jump that pushes off without moving the player onto the ground point
jump_in_place(p, ground, duration) ==
    IF contains_point(p.hitbox, ground)
    THEN [player |-> [apply_force(p, jump_force(duration)) EXCEPT !.jumping = TRUE],
          ret |-> TRUE]
    ELSE [player |-> p, ret |-> FALSE]

\* Player::jump: the player after the call and the value returned
jump(p, ground, duration) ==
    IF contains_point(p.hitbox, ground)
    THEN LET p1 == align_hitbox_to_pos(
                       hard_set_pos(p, << p.pos[1], Fx(ground.y) - Fx(TILE_SIZE) >>))
         IN  [player |-> [apply_force(p1, jump_force(duration)) EXCEPT !.jumping = TRUE],
              ret |-> TRUE]
    ELSE [player |-> p, ret |-> FALSE]

(***************************************************************************)
(* Terrain forces                                                          *)
(***************************************************************************)
TerrainTypes == { "Asphalt", "Grass", "Sand", "Water" }

\* fric_coeff of a terrain type as << numerator, denominator >>
fric_coeff(terrain_type) ==
    CASE terrain_type = "Asphalt" -> << 1, 20 >>
      [] terrain_type = "Grass" -> << 3, 40 >>
      [] terrain_type = "Sand" -> << 3, 50 >>
      [] terrain_type = "Water" -> << 1, 5 >>

\* g of a terrain type under a power-up
gravity(terrain_type, power_up) ==
    LET g == IF terrain_type = "Sand" THEN Fx(2) ELSE TruncDiv(Fx(3), 2)
    IN  IF power_up = "LowerGravity" THEN TruncDiv(g * 2, 3) ELSE g

\* a landing that moves the body onto the ground and keeps its velocity
land_on_ground_moving(body, ground) ==
    align_hitbox_to_pos(
        hard_set_pos(body, << Fx(body.hitbox.x),
                              Fx(ground.y) - TruncDiv(95 * Fx(TILE_SIZE), 100) >>))

\* the landing of a body on the ground point
land_on_ground(body, ground) ==
    IF body.velocity[2] < 0
       \/ Fx(body.hitbox.x) + TruncDiv(9 * Fx(TILE_SIZE), 10) > Fx(ground.y)
    THEN align_hitbox_to_pos(
             hard_set_vel(
                 hard_set_pos(body, << Fx(body.hitbox.x),
                                       Fx(ground.y) - TruncDiv(95 * Fx(TILE_SIZE), 100) >>),
                 << body.velocity[1], 0 >>))
    ELSE body

\* a ground that pushes back along the slope only
normal_force_sliding(mass, g, angle) == << TrigMul(mass * g, Sin(angle)), 0 >>

\* the normal force of the ground on a body
normal_force(mass, g, angle) ==
    << TrigMul(mass * g, Sin(angle)), TrigMul(mass * g, Cos(angle)) >>

\* the kinetic friction on a moving body; fric is << numerator, denominator >>
friction_force(mass, g, angle, fric, vel_x) ==
    LET direction_adjust == IF vel_x < 0 THEN -1 ELSE 1
        f == TruncDiv(fric[1] * mass * g, fric[2])
    IN  << 0 - TrigMul(f, Cos(angle)) * direction_adjust,
           TrigMul(f, Sin(angle)) * direction_adjust >>

\* Physics::apply_terrain_forces
apply_terrain_forces(body, angle, ground, terrain_type, power_up) ==
    LET g == gravity(terrain_type, power_up)
        b1 == apply_force(body, << 0, 0 - body.mass * g >>)
    IN  IF ~contains_point(b1.hitbox, ground) THEN b1
        ELSE LET b2 == land_on_ground(b1, ground)
                 b3 == apply_force(b2, normal_force(b2.mass, g, angle))
             IN  IF Abs(b3.velocity[1]) + Abs(b3.velocity[2]) > 0
                 THEN apply_force(b3, friction_force(b3.mass, g, angle,
                                                     fric_coeff(terrain_type),
                                                     b3.velocity[1]))
                 ELSE b3

\* post-collision velocity components of the Statue/Chest side collision
ElasticPlayer(p_mass, o_mass, v) == TruncDiv(2 * (p_mass - o_mass) * v, p_mass + o_mass)
ElasticObstacle(p_mass, o_mass, v) == TruncDiv(2 * (2 * p_mass) * v, p_mass + o_mass)

\* a shield test that never sees the shield
is_shielded_never(p) == FALSE

\* the shield test that opens collide_obstacle
is_shielded(p) == p.power_up = "Shield"

\* The result of collide_obstacle holds the player and the obstacle after
\* the call, the value returned and the side nearest_side reported.
Outcome(p, o, ret, side) == [player |-> p, obstacle |-> o, ret |-> ret, side |-> side]

\* the elastic collision without the position snap and the collided latch
side_collision_no_snap(p, o, side) ==
    LET p_vx == p.velocity[1]
        p_vy == IF p.jumping THEN p.velocity[2] ELSE 0
        o1 == hard_set_vel(o, << ElasticObstacle(p.mass, o.mass, p_vx),
                                 ElasticObstacle(p.mass, o.mass, p_vy) >>)
        p1 == hard_set_vel(p, << ElasticPlayer(p.mass, o.mass, p_vx),
                                 ElasticPlayer(p.mass, o.mass, p_vy) >>)
    IN  Outcome(p1, o1, TRUE, side)

\* side contact with a Statue or a Chest, neither shielded nor collided
\* before: the elastic collision.  (The angle between the centers that the
\* code computes first is never used.)
side_collision(p, o, side) ==
    LET p_vx == p.velocity[1]
        p_vy == IF p.jumping THEN p.velocity[2] ELSE 0
        o1 == hard_set_vel([o EXCEPT !.collided = TRUE],
                           << ElasticObstacle(p.mass, o.mass, p_vx),
                              ElasticObstacle(p.mass, o.mass, p_vy) >>)
        p1 == hard_set_vel(p, << ElasticPlayer(p.mass, o.mass, p_vx),
                                 ElasticPlayer(p.mass, o.mass, p_vy) >>)
        p2 == hard_set_pos(p1, << Fx(o1.hitbox.x) - TruncDiv(105 * Fx(TILE_SIZE), 100),
                                  Fx(p1.hitbox.y) >>)
    IN  Outcome(align_hitbox_to_pos(p2), o1, TRUE, side)

\* the upright test of the Chest landing
chest_upright(theta) == theta < OMEGA * 6 \/ theta > Rad360 - OMEGA * 6

\* descending onto a Chest: the chest is ground
chest_landing(p, o, side) ==
    LET p1 == align_hitbox_to_pos(
                  [p EXCEPT !.pos[2] = Fx(o.hitbox.y) - TruncDiv(95 * Fx(TILE_SIZE), 100)])
        p2 == [p1 EXCEPT !.velocity[2] = 0, !.jumping = FALSE, !.lock_jump_time = FALSE]
        p3 == [apply_force(p2, << 0, Fx(p2.mass) >>) EXCEPT !.omega = 0]
        o1 == [o EXCEPT !.collided = TRUE]
    IN  IF chest_upright(p3.theta)
        THEN Outcome([p3 EXCEPT !.theta = 0], o1, FALSE, side)
        ELSE Outcome(p3, o1, TRUE, side)

\* a Statue landing that is not fatal
statue_landing_soft(p, o, side) == Outcome(apply_bounce(p, o), o, FALSE, side)

\* descending onto a Statue, and onto a Balloon
statue_landing(p, o, side) == Outcome(apply_bounce(p, o), o, TRUE, side)
balloon_landing(p, o, side) == Outcome(apply_bounce(p, o), o, FALSE, side)

\* Player::collide_obstacle
collide_obstacle(p, o) ==
    LET shielded == is_shielded(p)
        collision_side == nearest_side(p.hitbox, o.hitbox)
    IN
    IF collision_side = 1 \/ collision_side = 3
    THEN IF o.obstacle_type \in {"Statue", "Chest"}
         THEN IF shielded \/ o.collided
              THEN Outcome(p, o, FALSE, collision_side)
              ELSE side_collision(p, o, collision_side)
         ELSE Outcome(p, o, FALSE, collision_side)
    ELSE IF p.velocity[2] < 0
    THEN CASE o.obstacle_type = "Chest" -> chest_landing(p, o, collision_side)
           [] o.obstacle_type = "Statue" -> statue_landing(p, o, collision_side)
           [] o.obstacle_type = "Balloon" -> balloon_landing(p, o, collision_side)
    ELSE Outcome(p, o, FALSE, collision_side)

\* collide_coin without the collected test
collide_coin_unchecked(p, c) == [player |-> p, coin |-> collect(c), ret |-> TRUE]

\* Player::collide_coin
collide_coin(p, c) ==
    IF ~c.collected
    THEN [player |-> p, coin |-> collect(c), ret |-> TRUE]
    ELSE [player |-> p, coin |-> c, ret |-> FALSE]

\* collide_power that keeps a power-up already active
collide_power_keep(p, w) ==
    IF ~w.collected
    THEN [player |-> IF p.power_up = "None" THEN set_power_up(p, w.power_type) ELSE p,
          power |-> collect(w), ret |-> TRUE]
    ELSE [player |-> p, power |-> w, ret |-> FALSE]

\* Player::collide_power
collide_power(p, w) ==
    IF ~w.collected
    THEN [player |-> set_power_up(p, w.power_type), power |-> collect(w), ret |-> TRUE]
    ELSE [player |-> p, power |-> w, ret |-> FALSE]

(***************************************************************************)
(* State                                                                   *)
(***************************************************************************)
VARIABLES
    player,     \* the Player
    obstacle,   \* one Obstacle
    coin,       \* one Coin
    power,      \* one Power
    call,       \* the last call: op, value returned, arguments, and the
                \* entities as they were when it was made
    calls,      \* how often collide_coin and Coin::collect were called
    steps,      \* operations applied so far
    tick,       \* the physics tick under way: its stage, its inputs and the
                \* player it started from
    rect,       \* a PhysRect driven through its public operations, with a
                \* second one to intersect it with and the last operation
    game        \* the power-up locals of the game loop and its list of powers

vars == << player, obstacle, coin, power, call, calls, steps, tick, rect, game >>

Origin == [x |-> 0, y |-> 0]

\* the values of tick, rect and game where no tick, rectangle or game loop
\* is under way
NoTick == [stage |-> "none"]
NoRect == [op |-> "none"]
NoGame == [stage |-> "none"]

\* the record of a call made in the current state
Called(op, ret, side, game_over, angle, ground) ==
    [op |-> op, ret |-> ret, side |-> side, game_over |-> game_over,
     angle |-> angle, ground |-> ground,
     player |-> player, obstacle |-> obstacle, coin |-> coin, power |-> power]

(***************************************************************************)
(* Inputs                                                                  *)
(***************************************************************************)
\* where the obstacle stands, and player positions around it: the player's
\* corner nearest to an edge midpoint of the obstacle is corner 1, 2, 3, 0
ObstacleAt == << 300, 300 >>
PlayerStarts == { << 210, 330 >>, << 290, 210 >>, << 390, 270 >>, << 390, 330 >> }
\* obstacle masses of the game loop (statue 50.0, spring 1.0) and one equal
\* to the player's
PlayerMass == 3
ObstacleMasses == { 1, 3, 50 }
ObstacleKinds == { << "Statue", 50 >>, << "Chest", 3 >>, << "Balloon", 1 >> }
\* terrain angles (atan of a slope, so within a quarter turn)
Angles == { -30, 0, 80 }
\* a ground point inside the hitbox and one below it
GroundsOf(e) == { [x |-> e.hitbox.x, y |-> e.hitbox.y + 95],
                  [x |-> e.hitbox.x, y |-> e.hitbox.y + 200] }
\* velocities and forces, in whole units
Velocities == { << 4, -3 >>, << 2, 5 >> }
Forces == { << 30, 150 >>, << -60, -90 >> }

FxPair(v) == << Fx(v[1]), Fx(v[2]) >>

Square(x, y) == PhysRectNew(x, y, TILE_SIZE, TILE_SIZE)

(***************************************************************************)
(* Init: the entities as constructed                                       *)
(***************************************************************************)
Init ==
    /\ \E s \in PlayerStarts : player = PlayerNew(Square(s[1], s[2]), PlayerMass)
    /\ \E k \in ObstacleKinds :
          obstacle = ObstacleNew(Square(ObstacleAt[1], ObstacleAt[2]), k[2], k[1])
    /\ coin = CoinNew(Square(250, 350))
    /\ \E t \in { "Shield", "SpeedBoost" } : power = PowerNew(Square(400, 350), t)
    /\ call = Called("new", FALSE, -1, FALSE, 0, Origin)
    /\ calls = [collide_coin |-> 0, collect |-> 0]
    /\ steps = 0
    /\ tick = NoTick
    /\ rect = NoRect
    /\ game = NoGame

(***************************************************************************)
(* Actions: one per operation                                              *)
(***************************************************************************)
Step == steps < MaxSteps /\ steps' = steps + 1 /\ UNCHANGED << tick, rect, game >>

CollideObstacle ==
    /\ Step
    /\ LET r == collide_obstacle(player, obstacle)
       IN  /\ player' = r.player
           /\ obstacle' = r.obstacle
           /\ call' = Called("collide_obstacle", r.ret, r.side, FALSE, 0, Origin)
    /\ UNCHANGED << coin, power, calls >>

CollideCoin ==
    /\ Step
    /\ LET r == collide_coin(player, coin)
       IN  /\ player' = r.player
           /\ coin' = r.coin
           /\ call' = Called("collide_coin", r.ret, -1, FALSE, 0, Origin)
    /\ calls' = [calls EXCEPT !.collide_coin = @ + 1]
    /\ UNCHANGED << obstacle, power >>

CollidePower ==
    /\ Step
    /\ LET r == collide_power(player, power)
       IN  /\ player' = r.player
           /\ power' = r.power
           /\ call' = Called("collide_power", r.ret, -1, FALSE, 0, Origin)
    /\ UNCHANGED << obstacle, coin, calls >>

CollectCoin ==
    /\ Step
    /\ coin' = collect(coin)
    /\ call' = Called("coin.collect", FALSE, -1, FALSE, 0, Origin)
    /\ calls' = [calls EXCEPT !.collect = @ + 1]
    /\ UNCHANGED << player, obstacle, power >>

CollectPower ==
    /\ Step
    /\ power' = collect(power)
    /\ call' = Called("power.collect", FALSE, -1, FALSE, 0, Origin)
    /\ UNCHANGED << player, obstacle, coin, calls >>

UpdatePos ==
    /\ Step
    /\ \E ground \in GroundsOf(player), angle \in Angles, game_over \in BOOLEAN :
          /\ player' = update_pos(player, ground, angle, game_over)
          /\ call' = Called("update_pos", FALSE, -1, game_over, angle, ground)
    /\ UNCHANGED << obstacle, coin, power, calls >>

UpdateVel ==
    /\ Step
    /\ \E game_over \in BOOLEAN :
          /\ player' = update_vel(player, game_over)
          /\ call' = Called("update_vel", FALSE, -1, game_over, 0, Origin)
    /\ UNCHANGED << obstacle, coin, power, calls >>

ObstacleUpdateVel ==
    /\ Step
    /\ obstacle' = obstacle_update_vel(obstacle, FALSE)
    /\ call' = Called("obstacle.update_vel", FALSE, -1, FALSE, 0, Origin)
    /\ UNCHANGED << player, coin, power, calls >>

ObstacleUpdatePos ==
    /\ Step
    /\ \E ground \in GroundsOf(obstacle), game_over \in BOOLEAN :
          /\ obstacle' = obstacle_update_pos(obstacle, ground, 15, game_over)
          /\ call' = Called("obstacle.update_pos", FALSE, -1, game_over, 15, ground)
    /\ UNCHANGED << player, coin, power, calls >>

\* camera_adj of every entity, as the loop shifts the whole scene
CameraAdj ==
    /\ Step
    /\ \E adj \in { << -10, 5 >>, << 20, 0 >> } :
          /\ player' = camera_adj(player, adj[1], adj[2])
          /\ obstacle' = camera_adj(obstacle, adj[1], adj[2])
          /\ coin' = camera_adj_i(coin, adj[1], adj[2])
          /\ power' = camera_adj_i(power, adj[1], adj[2])
    /\ call' = Called("camera_adj", FALSE, -1, FALSE, 0, Origin)
    /\ UNCHANGED calls

\* travel_update of the obstacle, the coin and the power
TravelUpdate ==
    /\ Step
    /\ obstacle' = travel_update(obstacle, 7)
    /\ coin' = travel_update_i(coin, 7)
    /\ power' = travel_update_i(power, 7)
    /\ call' = Called("travel_update", FALSE, -1, FALSE, 0, Origin)
    /\ UNCHANGED << player, calls >>

AlignHitboxToPos ==
    /\ Step
    /\ player' = align_hitbox_to_pos(player)
    /\ obstacle' = align_hitbox_to_pos(obstacle)
    /\ coin' = align_hitbox_to_pos_i(coin)
    /\ power' = align_hitbox_to_pos_i(power)
    /\ call' = Called("align_hitbox_to_pos", FALSE, -1, FALSE, 0, Origin)
    /\ UNCHANGED calls

HardSetVel ==
    /\ Step
    /\ \E v \in Velocities : player' = hard_set_vel(player, FxPair(v))
    /\ call' = Called("hard_set_vel", FALSE, -1, FALSE, 0, Origin)
    /\ UNCHANGED << obstacle, coin, power, calls >>

ApplyForce ==
    /\ Step
    /\ \E f \in Forces :
          /\ player' = apply_force(player, FxPair(f))
          /\ obstacle' = apply_force(obstacle, FxPair(f))
    /\ call' = Called("apply_force", FALSE, -1, FALSE, 0, Origin)
    /\ UNCHANGED << coin, power, calls >>

ResetAccel ==
    /\ Step
    /\ player' = reset_accel(player)
    /\ obstacle' = reset_accel(obstacle)
    /\ call' = Called("reset_accel", FALSE, -1, FALSE, 0, Origin)
    /\ UNCHANGED << coin, power, calls >>

SetPowerUp ==
    /\ Step
    /\ \E w \in { "None", "Shield", "LowerGravity" } : player' = set_power_up(player, w)
    /\ call' = Called("set_power_up", FALSE, -1, FALSE, 0, Origin)
    /\ UNCHANGED << obstacle, coin, power, calls >>

ResumeFlipping ==
    /\ Step
    /\ player' = resume_flipping(player)
    /\ call' = Called("resume_flipping", FALSE, -1, FALSE, 0, Origin)
    /\ UNCHANGED << obstacle, coin, power, calls >>

StopFlipping ==
    /\ Step
    /\ player' = stop_flipping(player)
    /\ call' = Called("stop_flipping", FALSE, -1, FALSE, 0, Origin)
    /\ UNCHANGED << obstacle, coin, power, calls >>

Flip ==
    /\ Step
    /\ player' = flip(player)
    /\ call' = Called("flip", FALSE, -1, FALSE, 0, Origin)
    /\ UNCHANGED << obstacle, coin, power, calls >>

CheckPlayerUpright ==
    /\ Step
    /\ \E ground \in GroundsOf(player), angle \in Angles :
          call' = Called("check_player_upright",
                         check_player_upright(player, angle, ground), -1, FALSE, angle, ground)
    /\ UNCHANGED << player, obstacle, coin, power, calls >>

Next ==
    \/ CollideObstacle
    \/ CollideCoin
    \/ CollidePower
    \/ CollectCoin
    \/ CollectPower
    \/ UpdatePos
    \/ UpdateVel
    \/ ObstacleUpdateVel
    \/ ObstacleUpdatePos
    \/ CameraAdj
    \/ TravelUpdate
    \/ AlignHitboxToPos
    \/ HardSetVel
    \/ ApplyForce
    \/ ResetAccel
    \/ SetPowerUp
    \/ ResumeFlipping
    \/ StopFlipping
    \/ Flip

Spec == Init /\ [][Next]_vars

(***************************************************************************)
(* SpecCollide: collide_obstacle on players and obstacles drawn from the   *)
(* states the public operations lead to (pos and collided are public       *)
(* fields, hard_set_vel sets any velocity, flip and update_pos set theta,  *)
(* set_power_up the power-up, update_pos and jump the jumping flag).       *)
(***************************************************************************)
\* rotations: multiples of OMEGA on both sides of upright
Thetas == { 0, 50, 60, 300, 310, 350 }
CollideVelocities == { << 0, 0 >>, << 4, -3 >>, << 2, 5 >> }

InitCollide ==
    /\ \E s \in PlayerStarts, v \in CollideVelocities, th \in Thetas,
          w \in { "None", "Shield" }, j \in BOOLEAN, f \in BOOLEAN :
          player = [PlayerNew(Square(s[1], s[2]), PlayerMass) EXCEPT
                        !.velocity = FxPair(v), !.theta = th, !.power_up = w,
                        !.jumping = j, !.flipping = f,
                        !.omega = IF f THEN OMEGA ELSE 0]
    /\ \E t \in ObstacleTypes, m \in ObstacleMasses :
          obstacle = ObstacleNew(Square(ObstacleAt[1], ObstacleAt[2]), m, t)
    /\ coin = CoinNew(Square(250, 350))
    /\ power = PowerNew(Square(400, 350), "Shield")
    /\ call = Called("new", FALSE, -1, FALSE, 0, Origin)
    /\ calls = [collide_coin |-> 0, collect |-> 0]
    /\ steps = 0
    /\ tick = NoTick
    /\ rect = NoRect
    /\ game = NoGame

NextCollide == CollideObstacle

SpecCollide == InitCollide /\ [][NextCollide]_vars

(***************************************************************************)
(* SpecKinematics: update_vel and check_player_upright on velocities,      *)
(* accumulated accelerations and rotations drawn from bounded sets.        *)
(***************************************************************************)
\* rotations flip reaches
UprightThetas == { 0, 10, 50, 60, 70, 300, 310, 350 }
DrawnVelocities == { << 0, 0 >>, << 4, -3 >>, << -50, 60 >>, << 9, -16 >> }
DrawnAccels == { << 0, 0 >>, << 20, 30 >>, << -40, -50 >> }

InitKinematics ==
    /\ \E s \in { << 210, 330 >> }, v \in DrawnVelocities, a \in DrawnAccels,
          th \in UprightThetas :
          /\ player = [PlayerNew(Square(s[1], s[2]), PlayerMass) EXCEPT
                           !.velocity = FxPair(v), !.accel = FxPair(a), !.theta = th]
          /\ obstacle = [ObstacleNew(Square(ObstacleAt[1], ObstacleAt[2]), 50, "Statue")
                            EXCEPT !.velocity = FxPair(v), !.accel = FxPair(a)]
    /\ coin = CoinNew(Square(250, 350))
    /\ power = PowerNew(Square(400, 350), "Shield")
    /\ call = Called("new", FALSE, -1, FALSE, 0, Origin)
    /\ calls = [collide_coin |-> 0, collect |-> 0]
    /\ steps = 0
    /\ tick = NoTick
    /\ rect = NoRect
    /\ game = NoGame

NextKinematics ==
    \/ UpdateVel
    \/ ObstacleUpdateVel
    \/ ApplyForce
    \/ CheckPlayerUpright

SpecKinematics == InitKinematics /\ [][NextKinematics]_vars

(***************************************************************************)
(* SpecTick: one physics tick of a player, apply_terrain_forces, then      *)
(* update_vel, then update_pos, from players, ground points, terrains and  *)
(* power-ups drawn from bounded sets.                                      *)
(***************************************************************************)
TickVelocities == { << 0, 0 >>, << 4, -3 >>, << 2, 5 >> }
TickAccels == { << 0, 0 >>, << 20, 30 >> }
TickAngles == { -30, 0, 30 }
\* ground points: two inside the hitbox and one below it
TickGrounds(e) == GroundsOf(e) \cup { [x |-> e.hitbox.x, y |-> e.hitbox.y + 50] }

InitTick ==
    /\ \E s \in PlayerStarts, v \in TickVelocities, a \in TickAccels :
          player = [PlayerNew(Square(s[1], s[2]), PlayerMass) EXCEPT
                        !.velocity = FxPair(v), !.accel = FxPair(a)]
    /\ obstacle = ObstacleNew(Square(ObstacleAt[1], ObstacleAt[2]), 50, "Statue")
    /\ coin = CoinNew(Square(250, 350))
    /\ power = PowerNew(Square(400, 350), "Shield")
    /\ call = Called("new", FALSE, -1, FALSE, 0, Origin)
    /\ calls = [collide_coin |-> 0, collect |-> 0]
    /\ steps = 0
    /\ \E angle \in TickAngles, ground \in TickGrounds(player),
          terrain_type \in TerrainTypes, power_up \in { "None", "LowerGravity" },
          game_over \in BOOLEAN :
          tick = [stage |-> "forces", angle |-> angle, ground |-> ground,
                  terrain_type |-> terrain_type, power_up |-> power_up,
                  game_over |-> game_over, start |-> player]
    /\ rect = NoRect
    /\ game = NoGame

TickForces ==
    /\ tick.stage = "forces"
    /\ player' = apply_terrain_forces(player, tick.angle, tick.ground,
                                      tick.terrain_type, tick.power_up)
    /\ call' = Called("apply_terrain_forces", FALSE, -1, tick.game_over,
                      tick.angle, tick.ground)
    /\ tick' = [tick EXCEPT !.stage = "vel"]
    /\ UNCHANGED << obstacle, coin, power, calls, steps, rect, game >>

TickVel ==
    /\ tick.stage = "vel"
    /\ player' = update_vel(player, tick.game_over)
    /\ call' = Called("update_vel", FALSE, -1, tick.game_over, tick.angle, tick.ground)
    /\ tick' = [tick EXCEPT !.stage = "pos"]
    /\ UNCHANGED << obstacle, coin, power, calls, steps, rect, game >>

TickPos ==
    /\ tick.stage = "pos"
    /\ player' = update_pos(player, tick.ground, tick.angle, tick.game_over)
    /\ call' = Called("update_pos", FALSE, -1, tick.game_over, tick.angle, tick.ground)
    /\ tick' = [tick EXCEPT !.stage = "done"]
    /\ UNCHANGED << obstacle, coin, power, calls, steps, rect, game >>

NextTick ==
    \/ TickForces
    \/ TickVel
    \/ TickPos

SpecTick == InitTick /\ [][NextTick]_vars

(***************************************************************************)
(* SpecRect: a PhysRect that is never rotated, built by new and driven     *)
(* through set_x, set_y, set_height, resize, offset, reposition and        *)
(* center_on with arguments from both ends of the i32 range.  rect is      *)
(*   [r : the PhysRect, before : it before the last operation, op, args,   *)
(*    build, overflowed, panicked].                                        *)
(* An i32 or u32 subtraction that leaves its range panics in a build with  *)
(* overflow checks ("debug") and wraps in one without ("release"); after a *)
(* panic nothing more is called.                                           *)
(***************************************************************************)
Builds == { "debug", "release" }
RectXs == { I32Min, -5, 7, I32Max }
RectYs == { 0, MaxIntValue }
RectNewSizes == { << 0, 10 >>, << 10, 0 >>, << 10, 20 >>, << I32Max, 10 >>, << 10, I32Max >> }
RectHeights == { 0, 5, 30, I32Max }
RectResizes == { << 0, 0 >>, << 5, 30 >>, << 30, 5 >>, << 30, 30 >>, << 10, 10 >>,
                 << I32Max, 10 >> }
RectOffsets == { << 3, -4 >>, << I32Max, 0 >>, << 0, I32Min >>, << I32Min, I32Max >> }
RectPoints == { << 7, 9 >>, << -5, 0 >>, << I32Min, I32Max >> }

InitRect ==
    /\ player = PlayerNew(Square(210, 330), PlayerMass)
    /\ obstacle = ObstacleNew(Square(ObstacleAt[1], ObstacleAt[2]), 50, "Statue")
    /\ coin = CoinNew(Square(250, 350))
    /\ power = PowerNew(Square(400, 350), "Shield")
    /\ call = Called("new", FALSE, -1, FALSE, 0, Origin)
    /\ calls = [collide_coin |-> 0, collect |-> 0]
    /\ steps = 0
    /\ tick = NoTick
    /\ \E x \in RectXs, y \in RectYs, size \in RectNewSizes, build \in Builds :
          rect = [r |-> PhysRectNew(x, y, size[1], size[2]),
                  before |-> PhysRectNew(x, y, size[1], size[2]),
                  op |-> "new", args |-> << x, y, size[1], size[2] >>,
                  build |-> build, overflowed |-> FALSE, panicked |-> FALSE]
    /\ game = NoGame

\* a call on the rect: none after a panic
RectStep ==
    /\ ~rect.panicked
    /\ steps < MaxSteps
    /\ steps' = steps + 1
    /\ UNCHANGED << player, obstacle, coin, power, call, calls, tick, game >>

\* rect after operation op with arguments args, which leads to r unless its
\* arithmetic overflows in a build that checks for it
RectCalled(op, args, r, overflows) ==
    [rect EXCEPT !.r = IF overflows /\ rect.build = "debug" THEN rect.r ELSE r,
                 !.before = rect.r, !.op = op, !.args = args,
                 !.overflowed = overflows,
                 !.panicked = overflows /\ rect.build = "debug"]

RectSetX ==
    /\ RectStep
    /\ \E x \in RectXs :
          rect' = RectCalled("set_x", << x >>, set_x(rect.r, x), SubOverflows(x, rect.r.x))

RectSetY ==
    /\ RectStep
    /\ \E y \in RectXs :
          rect' = RectCalled("set_y", << y >>, set_y(rect.r, y), SubOverflows(y, rect.r.y))

RectSetHeight ==
    /\ RectStep
    /\ \E height \in RectHeights :
          rect' = RectCalled("set_height", << height >>, set_height(rect.r, height), FALSE)

RectResize ==
    /\ RectStep
    /\ \E size \in RectResizes :
          rect' = RectCalled("resize", size, resize(rect.r, size[1], size[2]),
                             resize_underflows(rect.r, size[1], size[2]))

RectOffset ==
    /\ RectStep
    /\ \E d \in RectOffsets :
          rect' = RectCalled("offset", d, offset(rect.r, d[1], d[2]),
                             offset_overflows(rect.r, d[1], d[2]))

RectReposition ==
    /\ RectStep
    /\ \E point \in RectPoints :
          rect' = RectCalled("reposition", point, reposition(rect.r, point[1], point[2]),
                             reposition_overflows(rect.r, point[1], point[2]))

RectCenterOn ==
    /\ RectStep
    /\ \E point \in RectPoints :
          rect' = RectCalled("center_on", point, center_on(rect.r, point[1], point[2]), FALSE)

NextRect ==
    \/ RectSetX
    \/ RectSetY
    \/ RectSetHeight
    \/ RectResize
    \/ RectOffset
    \/ RectReposition
    \/ RectCenterOn

SpecRect == InitRect /\ [][NextRect]_vars

(***************************************************************************)
(* SpecGeometry: two PhysRects a and b built by new, turned by rotate and  *)
(* set_angle and queried with contains_point and has_intersection.  rect   *)
(* is [a, b, fresh : the arguments new built a from, turns : the angles    *)
(* rotate turned a by, angled : set_angle was called on a, op, args,       *)
(* ret : the value returned, swapped : the value of the query with a and b *)
(* exchanged].                                                             *)
(***************************************************************************)
\* x, y, width, height of a
GeoRects == { << 0, 0, 100, 100 >>, << 210, 330, 100, 100 >>, << 0, -40, 55, 57 >>,
              << -7, 3, 10, 5 >> }
\* b for a = new(x, y, w, h): the same rectangle, one overlapping it, one
\* inside it, one touching its bottom right corner, one sharing its right
\* edge, and one apart from it
GeoOthers(g) ==
    LET x == g[1]
        y == g[2]
        w == g[3]
        h == g[4]
    IN  { << x, y, w, h >>,
          << x + (w \div 2), y + (h \div 2), w, h >>,
          << x + 1, y + 1, w - 2, h - 2 >>,
          << x + w, y + h, w, h >>,
          << x + w, y, w, h >>,
          << x + 3 * w, y, w, h >> }
GeoAngles == { 30, -30, 90, -90, 210, -210 }
GeoSetAngles == { 0, 30, 90 }
\* points on, next to and away from the edges of a = new(x, y, w, h)
GeoPoints(g) ==
    { << px, py >> : px \in { g[1] - 1, g[1], g[1] + g[3] - 1, g[1] + g[3] },
                     py \in { g[2] - 1, g[2], g[2] + g[4] - 1, g[2] + g[4] } }

GeoRect(g) == PhysRectNew(g[1], g[2], g[3], g[4])

InitGeometry ==
    /\ player = PlayerNew(Square(210, 330), PlayerMass)
    /\ obstacle = ObstacleNew(Square(ObstacleAt[1], ObstacleAt[2]), 50, "Statue")
    /\ coin = CoinNew(Square(250, 350))
    /\ power = PowerNew(Square(400, 350), "Shield")
    /\ call = Called("new", FALSE, -1, FALSE, 0, Origin)
    /\ calls = [collide_coin |-> 0, collect |-> 0]
    /\ steps = 0
    /\ tick = NoTick
    /\ \E g \in GeoRects : \E o \in GeoOthers(g) :
          rect = [a |-> GeoRect(g), b |-> GeoRect(o), fresh |-> g, turns |-> << >>,
                  angled |-> FALSE, op |-> "new", args |-> g, ret |-> FALSE, swapped |-> FALSE]
    /\ game = NoGame

GeoStep ==
    /\ steps < MaxSteps
    /\ steps' = steps + 1
    /\ UNCHANGED << player, obstacle, coin, power, call, calls, tick, game >>

GeoRotate ==
    /\ GeoStep
    /\ \E theta \in GeoAngles :
          rect' = [rect EXCEPT !.a = rect_rotate(rect.a, theta),
                               !.turns = Append(rect.turns, theta),
                               !.op = "rotate", !.args = << theta >>]

GeoRotateOther ==
    /\ GeoStep
    /\ \E theta \in { 30, 90 } :
          rect' = [rect EXCEPT !.b = rect_rotate(rect.b, theta),
                               !.op = "other.rotate", !.args = << theta >>]

GeoSetAngle ==
    /\ GeoStep
    /\ \E theta \in GeoSetAngles :
          rect' = [rect EXCEPT !.a = set_angle(rect.a, theta),
                               !.angled = TRUE,
                               !.op = "set_angle", !.args = << theta >>]

GeoContainsPoint ==
    /\ GeoStep
    /\ \E p \in GeoPoints(rect.fresh) :
          rect' = [rect EXCEPT !.op = "contains_point", !.args = p,
                               !.ret = contains_point(rect.a, [x |-> p[1], y |-> p[2]])]

GeoHasIntersection ==
    /\ GeoStep
    /\ rect' = [rect EXCEPT !.op = "has_intersection", !.args = << >>,
                            !.ret = has_intersection(rect.a, rect.b),
                            !.swapped = has_intersection(rect.b, rect.a)]

NextGeometry ==
    \/ GeoRotate
    \/ GeoRotateOther
    \/ GeoSetAngle
    \/ GeoContainsPoint
    \/ GeoHasIntersection

SpecGeometry == InitGeometry /\ [][NextGeometry]_vars

(***************************************************************************)
(* PhysRect constructors and extrema: from_center, center, top, bottom     *)
(***************************************************************************)
ShapeCenters == { << 0, 0 >>, << 50, 60 >>, << -20, 35 >> }
ShapeSizes == { << 0, 0 >>, << 1, 1 >>, << 10, 20 >>, << 55, 57 >> }
ShapeAngles == { 30, 90, 180, -30 }

\* a rectangle from either constructor; made tells which, args are the
\* constructor's arguments, turned whether rotate has been called since
InitShape ==
    /\ player = PlayerNew(Square(210, 330), PlayerMass)
    /\ obstacle = ObstacleNew(Square(ObstacleAt[1], ObstacleAt[2]), 50, "Statue")
    /\ coin = CoinNew(Square(250, 350))
    /\ power = PowerNew(Square(400, 350), "Shield")
    /\ call = Called("new", FALSE, -1, FALSE, 0, Origin)
    /\ calls = [collide_coin |-> 0, collect |-> 0]
    /\ steps = 0
    /\ tick = NoTick
    /\ game = NoGame
    /\ \E c \in ShapeCenters, s \in ShapeSizes :
          \/ rect = [r |-> from_center(Pt(c[1], c[2]), s[1], s[2]), made |-> "from_center",
                     args |-> << c[1], c[2], s[1], s[2] >>, turned |-> FALSE,
                     op |-> "from_center", ret |-> Origin]
          \/ rect = [r |-> PhysRectNew(c[1], c[2], s[1], s[2]), made |-> "new",
                     args |-> << c[1], c[2], s[1], s[2] >>, turned |-> FALSE,
                     op |-> "new", ret |-> Origin]

ShapeStep ==
    /\ steps < MaxSteps
    /\ steps' = steps + 1
    /\ UNCHANGED << player, obstacle, coin, power, call, calls, tick, game >>

ShapeRotate ==
    /\ ShapeStep
    /\ \E theta \in ShapeAngles :
          rect' = [rect EXCEPT !.r = rect_rotate(rect.r, theta), !.turned = TRUE,
                               !.op = "rotate", !.ret = Origin]

ShapeCenter ==
    /\ ShapeStep
    /\ rect' = [rect EXCEPT !.op = "center", !.ret = RectCenter(rect.r)]

ShapeTop ==
    /\ ShapeStep
    /\ rect' = [rect EXCEPT !.op = "top", !.ret = RectTop(rect.r)]

ShapeBottom ==
    /\ ShapeStep
    /\ rect' = [rect EXCEPT !.op = "bottom", !.ret = RectBottom(rect.r)]

NextShape ==
    \/ ShapeRotate
    \/ ShapeCenter
    \/ ShapeTop
    \/ ShapeBottom

SpecShape == InitShape /\ [][NextShape]_vars

(***************************************************************************)
(* SpecBounce: apply_bounce on players above, inside, below and beside     *)
(* the body, touching it and away from it                                  *)
(***************************************************************************)
BounceStarts ==
    { << 300, 200 >>, << 300, 210 >>, << 290, 210 >>, << 300, 300 >>, << 300, 390 >>,
      << 210, 300 >>, << 390, 310 >>, << 0, 0 >> }
BounceAccels == { << 0, 0 >>, << 20, 30 >>, << -40, -50 >> }

InitBounce ==
    /\ \E s \in BounceStarts, a \in BounceAccels :
          player = [PlayerNew(Square(s[1], s[2]), PlayerMass) EXCEPT !.accel = FxPair(a)]
    /\ \E k \in ObstacleKinds :
          obstacle = ObstacleNew(Square(ObstacleAt[1], ObstacleAt[2]), k[2], k[1])
    /\ coin = CoinNew(Square(250, 350))
    /\ power = PowerNew(Square(400, 350), "Shield")
    /\ call = Called("new", FALSE, -1, FALSE, 0, Origin)
    /\ calls = [collide_coin |-> 0, collect |-> 0]
    /\ steps = 0
    /\ tick = NoTick
    /\ rect = NoRect
    /\ game = NoGame

ApplyBounce ==
    /\ Step
    /\ player' = apply_bounce(player, obstacle)
    /\ call' = Called("apply_bounce", FALSE, -1, FALSE, 0, Origin)
    /\ UNCHANGED << obstacle, coin, power, calls >>

NextBounce == ApplyBounce

SpecBounce == InitBounce /\ [][NextBounce]_vars

(***************************************************************************)
(* SpecSide: collide_obstacle on a player that comes from the left of an   *)
(* obstacle at the same height, or sits directly above it                  *)
(***************************************************************************)
\* how far the player's hitbox reaches into the obstacle's
SideOverlaps == { 0, 10, 30 }
SideStarts ==
    { << ObstacleAt[1] - TILE_SIZE + d, ObstacleAt[2] >> : d \in SideOverlaps } \cup
    { << ObstacleAt[1], ObstacleAt[2] - TILE_SIZE + d >> : d \in SideOverlaps }

InitSide ==
    /\ \E s \in SideStarts, v \in CollideVelocities, w \in { "None", "Shield" } :
          player = [PlayerNew(Square(s[1], s[2]), PlayerMass) EXCEPT
                        !.velocity = FxPair(v), !.power_up = w]
    /\ \E k \in ObstacleKinds :
          obstacle = ObstacleNew(Square(ObstacleAt[1], ObstacleAt[2]), k[2], k[1])
    /\ coin = CoinNew(Square(250, 350))
    /\ power = PowerNew(Square(400, 350), "Shield")
    /\ call = Called("new", FALSE, -1, FALSE, 0, Origin)
    /\ calls = [collide_coin |-> 0, collect |-> 0]
    /\ steps = 0
    /\ tick = NoTick
    /\ rect = NoRect
    /\ game = NoGame

NextSide == CollideObstacle

SpecSide == InitSide /\ [][NextSide]_vars

(***************************************************************************)
(* SpecJump: jump calls on a player, with ground points inside and below   *)
(* the hitbox and the ground point of the call before.  tick.log holds a   *)
(* [ground, duration, ret] record for every call made.                     *)
(***************************************************************************)
\* milliseconds the jump key was held: both ends of every force tier
JumpDurations == { 0, 100, 101, 200, 201 }
JumpAccels == { << 0, 0 >>, << 20, 30 >> }

\* ground points for the next call: those of TickGrounds and the last one used
JumpGrounds == TickGrounds(player) \cup { tick.log[i].ground : i \in { Len(tick.log) } \ { 0 } }

InitJump ==
    /\ \E s \in PlayerStarts, a \in JumpAccels, j \in BOOLEAN :
          player = [PlayerNew(Square(s[1], s[2]), PlayerMass) EXCEPT
                        !.accel = FxPair(a), !.jumping = j]
    /\ obstacle = ObstacleNew(Square(ObstacleAt[1], ObstacleAt[2]), 50, "Statue")
    /\ coin = CoinNew(Square(250, 350))
    /\ power = PowerNew(Square(400, 350), "Shield")
    /\ call = Called("new", FALSE, -1, FALSE, 0, Origin)
    /\ calls = [collide_coin |-> 0, collect |-> 0]
    /\ steps = 0
    /\ tick = [stage |-> "jumps", log |-> << >>]
    /\ rect = NoRect
    /\ game = NoGame

Jump ==
    /\ steps < MaxSteps
    /\ steps' = steps + 1
    /\ \E ground \in JumpGrounds, duration \in JumpDurations :
          LET r == jump(player, ground, duration)
          IN  /\ player' = r.player
              /\ call' = Called("jump", r.ret, -1, FALSE, 0, ground)
              /\ tick' = [tick EXCEPT !.log = Append(@, [ground |-> ground,
                                                         duration |-> duration,
                                                         ret |-> r.ret])]
    /\ UNCHANGED << obstacle, coin, power, calls, rect, game >>

NextJump == Jump

SpecJump == InitJump /\ [][NextJump]_vars

(***************************************************************************)
(* SpecFlip: resume_flipping, stop_flipping, flip, update_pos and          *)
(* collide_obstacle in any order on a player as constructed, with a        *)
(* velocity as hard_set_vel leaves it, beside or above an obstacle         *)
(***************************************************************************)
InitFlip ==
    /\ \E s \in PlayerStarts, v \in CollideVelocities :
          player = hard_set_vel(PlayerNew(Square(s[1], s[2]), PlayerMass), FxPair(v))
    /\ \E k \in ObstacleKinds :
          obstacle = ObstacleNew(Square(ObstacleAt[1], ObstacleAt[2]), k[2], k[1])
    /\ coin = CoinNew(Square(250, 350))
    /\ power = PowerNew(Square(400, 350), "Shield")
    /\ call = Called("new", FALSE, -1, FALSE, 0, Origin)
    /\ calls = [collide_coin |-> 0, collect |-> 0]
    /\ steps = 0
    /\ tick = NoTick
    /\ rect = NoRect
    /\ game = NoGame

NextFlip ==
    \/ ResumeFlipping
    \/ StopFlipping
    \/ Flip
    \/ UpdatePos
    \/ CollideObstacle

SpecFlip == InitFlip /\ [][NextFlip]_vars

(***************************************************************************)
(* Game loop: power-up collection, countdown and expiry (runner.rs)        *)
(***************************************************************************)
\* ticks a collected power-up lasts ("Hardcoded powerup duration")
PowerDuration == 360

\* the largest number of power-ups on the terrain at once
MaxPowers == 1

\* f64 literal num/den in fixed point
FxRatio(num, den) == TruncDiv(num * Scale, den)

\* the loop's power parameters as they are before the first iteration
PowerDefaults ==
    [player_accel_rate |-> Fx(-10), player_jump_change |-> 0,
     player_speed_adjust |-> 0, shielded |-> FALSE]

\* the four parameters of a loop state, as one record
PowerParams(g) ==
    [player_accel_rate |-> g.player_accel_rate, player_jump_change |-> g.player_jump_change,
     player_speed_adjust |-> g.player_speed_adjust, shielded |-> g.shielded]

\* Power::new in the loop: a spawned power-up, not yet collected
SpawnedPower(power_type) == [power_type |-> power_type, collected |-> FALSE]

\* mutant of collect_power: the parameters of the previous power are kept
collect_power_keep(g, i) ==
    [g EXCEPT !.active_power = g.all_powers[i].power_type,
              !.all_powers[i].collected = TRUE,
              !.power_timer = PowerDuration,
              !.tick.picked = Append(g.tick.picked, g.all_powers[i].power_type)]

\* the body of `if !power.collected()` for the power-up at index i
collect_power(g, i) ==
    [g EXCEPT !.active_power = g.all_powers[i].power_type,
              !.player_accel_rate = Fx(-10),
              !.player_jump_change = 0,
              !.player_speed_adjust = 0,
              !.shielded = FALSE,
              !.all_powers[i].collected = TRUE,
              !.power_timer = PowerDuration,
              !.tick.picked = Append(g.tick.picked, g.all_powers[i].power_type)]

\* the `for power in all_powers.iter_mut()` pass from index i on; hits[i] is
\* what check_power answers for the i-th power-up; counter and to_remove_ind
\* count from 0 as in the source, -1 for "nothing to remove"
RECURSIVE collect_pass(_, _, _, _, _)
collect_pass(g, hits, i, counter, to_remove_ind) ==
    IF i > Len(g.all_powers) THEN [g |-> g, to_remove_ind |-> to_remove_ind]
    ELSE IF hits[i]
         THEN IF ~g.all_powers[i].collected
              THEN collect_pass(collect_power(g, i), hits, i + 1, counter, counter)
              ELSE collect_pass(g, hits, i + 1, counter, to_remove_ind)
         ELSE collect_pass(g, hits, i + 1, counter + 1, to_remove_ind)

\* Vec::remove(index), index counted from 0
VecRemove(v, index) ==
    [k \in 1..(Len(v) - 1) |-> IF k <= index THEN v[k] ELSE v[k + 1]]

\* the collection pass and the removal that follows it
collect_powers(g, hits) ==
    LET pass == collect_pass(g, hits, 1, 0, -1) IN
    IF pass.to_remove_ind # -1
    THEN [pass.g EXCEPT !.all_powers = VecRemove(pass.g.all_powers, pass.to_remove_ind)]
    ELSE pass.g

\* `if power_timer > 0` branch: count down and apply the active power
power_effect(g) ==
    LET t == [g EXCEPT !.power_timer = g.power_timer - 1] IN
    CASE g.active_power = "SpeedBoost" -> [t EXCEPT !.player_speed_adjust = Fx(5)]
      [] g.active_power = "BouncyShoes" ->
            [t EXCEPT !.player_jump_change = FxRatio(3, 10), !.tick.jumped = TRUE]
      [] g.active_power = "LowerGravity" ->
            [t EXCEPT !.player_accel_rate = Fx(-5), !.player_jump_change = FxRatio(2, 10)]
      [] g.active_power = "Shield" -> [t EXCEPT !.shielded = TRUE]
      [] OTHER -> t

\* mutant of power_expire: the power is dropped, its parameters stay
power_expire_keep(g) == [g EXCEPT !.active_power = "None"]

\* the else branch (power_timer is 0): undo the active power and drop it
power_expire(g) ==
    LET t == [g EXCEPT !.active_power = "None"] IN
    CASE g.active_power = "SpeedBoost" -> [t EXCEPT !.player_speed_adjust = 0]
      [] g.active_power = "BouncyShoes" -> [t EXCEPT !.player_jump_change = 0]
      [] g.active_power = "LowerGravity" ->
            [t EXCEPT !.player_accel_rate = Fx(-10), !.player_jump_change = 0]
      [] g.active_power = "Shield" -> [t EXCEPT !.shielded = FALSE]
      [] OTHER -> t

\* "Handle Power Ups" of one iteration
handle_power(g) == IF g.power_timer > 0 THEN power_effect(g) ELSE power_expire(g)

\* object generation pushes a new power-up (spawn is "None" when it does not)
spawn_power(g, spawn) ==
    IF spawn = "None" THEN g
    ELSE [g EXCEPT !.all_powers = Append(g.all_powers, SpawnedPower(spawn))]

\* `for i in 0..ind { all_powers.remove(i) }` from index i on
RECURSIVE remove_upto(_, _, _)
remove_upto(v, i, ind) ==
    IF i >= ind THEN v ELSE remove_upto(VecRemove(v, i), i + 1, ind)

\* the power-ups that left the screen: ind is one less than their number
remove_offscreen(g, offscreen) ==
    [g EXCEPT !.all_powers = remove_upto(g.all_powers, 0, offscreen - 1)]

\* what the loop state records about its last unpaused iteration
LoopTickRecord(kind, g) ==
    [kind |-> kind, picked |-> << >>, jumped |-> FALSE,
     before_power |-> g.active_power, before_running |-> g.power_timer > 0,
     collected_timer |-> g.power_timer]

InitLoop ==
    /\ player = PlayerNew(Square(210, 330), PlayerMass)
    /\ obstacle = ObstacleNew(Square(ObstacleAt[1], ObstacleAt[2]), 50, "Statue")
    /\ coin = CoinNew(Square(250, 350))
    /\ power = PowerNew(Square(400, 350), "Shield")
    /\ call = Called("new", FALSE, -1, FALSE, 0, Origin)
    /\ calls = [collide_coin |-> 0, collect |-> 0]
    /\ steps = 0
    /\ tick = NoTick
    /\ rect = NoRect
    /\ game = [stage |-> "loop", active_power |-> "None", power_timer |-> 0,
               player_accel_rate |-> Fx(-10), player_jump_change |-> 0,
               player_speed_adjust |-> 0, shielded |-> FALSE,
               all_powers |-> << >>, game_paused |-> FALSE,
               tick |-> [kind |-> "start", picked |-> << >>, jumped |-> FALSE,
                         before_power |-> "None", before_running |-> FALSE,
                         collected_timer |-> 0]]

LoopUnchanged == UNCHANGED << player, obstacle, coin, power, call, calls, steps, tick, rect >>

\* one iteration of the loop while the game is paused: only a resume key
\* changes anything
LoopPaused ==
    /\ game.game_paused
    /\ \E resume \in BOOLEAN : game' = [game EXCEPT !.game_paused = ~resume]
    /\ LoopUnchanged

\* how many power-ups have left the screen, of n on the terrain: none or all
\* (a single one is the same as none: ind is 0 and nothing is removed)
OffscreenCounts(n) == {0} \cup {k \in {n} : k >= 2}

\* one iteration of the loop while the game is not paused
LoopTick ==
    /\ ~game.game_paused
    /\ \E escape \in BOOLEAN, hits \in [1..Len(game.all_powers) -> BOOLEAN],
          spawn \in {"None"} \cup PowerTypes :
          LET started == [game EXCEPT !.game_paused = escape,
                                      !.tick = LoopTickRecord("unpaused", game)]
              collected == collect_powers(started, hits)
              marked == [collected EXCEPT !.tick.collected_timer = collected.power_timer]
              handled == handle_power(marked)
          IN  /\ spawn # "None" => Len(handled.all_powers) < MaxPowers
              /\ \E offscreen \in OffscreenCounts(Len(handled.all_powers)) :
                    game' = remove_offscreen(spawn_power(handled, spawn), offscreen)
    /\ LoopUnchanged

NextLoop ==
    \/ LoopPaused
    \/ LoopTick

SpecLoop == InitLoop /\ [][NextLoop]_vars

(***************************************************************************)
(* Game loop: coin collection (runner.rs).  The coin locals of the loop    *)
(* (all_coins, coin_count, curr_step_score) are touched by the collection  *)
(* pass, object generation and the off-screen removal only, so the loop    *)
(* is followed here through those parts of an iteration.                   *)
(***************************************************************************)
\* the value every coin is spawned with
CoinValue == 1000

\* the number of coins generated in a run
MaxCoins == 4

\* Coin::new in the loop: a spawned coin, not yet collected
SpawnedCoin == [collected |-> FALSE, value |-> CoinValue]

\* the body of `if !coin.collected()` for the coin at index i
collect_coin(g, i) ==
    [g EXCEPT !.all_coins[i].collected = TRUE,
              !.coin_count = @ + 1,
              !.curr_step_score = @ + g.all_coins[i].value]

\* the `for coin in all_coins.iter_mut()` pass from index i on; hits[i] is
\* what check_collection answers for the i-th coin; counter and
\* to_remove_ind count from 0 as in the source, -1 for "nothing to remove"
RECURSIVE coin_pass(_, _, _, _, _)
coin_pass(g, hits, i, counter, to_remove_ind) ==
    IF i > Len(g.all_coins) THEN [g |-> g, to_remove_ind |-> to_remove_ind]
    ELSE IF hits[i]
         THEN IF ~g.all_coins[i].collected
              THEN coin_pass(collect_coin(g, i), hits, i + 1, counter, counter)
              ELSE coin_pass(g, hits, i + 1, counter, to_remove_ind)
         ELSE coin_pass(g, hits, i + 1, counter + 1, to_remove_ind)

\* the collection pass and the removal that follows it
collect_coins(g, hits) ==
    LET pass == coin_pass(g, hits, 1, 0, -1) IN
    IF pass.to_remove_ind # -1
    THEN [pass.g EXCEPT !.all_coins = VecRemove(pass.g.all_coins, pass.to_remove_ind)]
    ELSE pass.g

\* object generation pushes a new coin when spawn is true
spawn_coin(g, spawn) ==
    IF spawn THEN [g EXCEPT !.all_coins = Append(g.all_coins, SpawnedCoin)] ELSE g

\* the coins that left the screen: ind is one less than their number
remove_offscreen_coins(g, offscreen) ==
    [g EXCEPT !.all_coins = remove_upto(g.all_coins, 0, offscreen - 1)]

\* what the loop state records about its last unpaused iteration: how many
\* coins the pass collected and, when it removed one (any), whether that coin
\* touched the player in the pass and whether it was collected before it
CoinTickRecord(g, hits) ==
    LET to_remove_ind == coin_pass(g, hits, 1, 0, -1).to_remove_ind
        any == to_remove_ind # -1
        k == IF any THEN to_remove_ind + 1 ELSE 1
    IN  [kind |-> "unpaused",
         before_count |-> g.coin_count,
         collected |-> Cardinality({i \in 1..Len(g.all_coins) :
                                       hits[i] /\ ~g.all_coins[i].collected}),
         removed |-> [any |-> any,
                      hit |-> any /\ hits[k],
                      was_collected |-> any /\ g.all_coins[k].collected]]

InitCoins ==
    /\ player = PlayerNew(Square(210, 330), PlayerMass)
    /\ obstacle = ObstacleNew(Square(ObstacleAt[1], ObstacleAt[2]), 50, "Statue")
    /\ coin = CoinNew(Square(250, 350))
    /\ power = PowerNew(Square(400, 350), "Shield")
    /\ call = Called("new", FALSE, -1, FALSE, 0, Origin)
    /\ calls = [collide_coin |-> 0, collect |-> 0]
    /\ steps = 0
    /\ tick = NoTick
    /\ rect = NoRect
    /\ game = [stage |-> "coins", all_coins |-> << >>, coin_count |-> 0,
               curr_step_score |-> 0, spawned |-> 0, game_paused |-> FALSE,
               tick |-> [kind |-> "start", before_count |-> 0, collected |-> 0,
                         removed |-> [any |-> FALSE, hit |-> FALSE,
                                      was_collected |-> FALSE]]]

\* one iteration of the loop while the game is paused: only a resume key
\* changes anything
CoinsPaused ==
    /\ game.game_paused
    /\ \E resume \in BOOLEAN : game' = [game EXCEPT !.game_paused = ~resume]
    /\ LoopUnchanged

\* one iteration of the loop while the game is not paused
CoinsTick ==
    /\ ~game.game_paused
    /\ \E escape \in BOOLEAN, hits \in [1..Len(game.all_coins) -> BOOLEAN],
          spawn \in BOOLEAN :
          LET started == [game EXCEPT !.game_paused = escape,
                                      !.curr_step_score = 0,
                                      !.tick = CoinTickRecord(game, hits)]
              collected == collect_coins(started, hits)
          IN  /\ spawn => game.spawned < MaxCoins
              /\ \E offscreen \in OffscreenCounts(Len(collected.all_coins)) :
                    game' = remove_offscreen_coins(
                                [spawn_coin(collected, spawn) EXCEPT
                                    !.spawned = IF spawn THEN @ + 1 ELSE @],
                                offscreen)
    /\ LoopUnchanged

NextCoins ==
    \/ CoinsPaused
    \/ CoinsTick

SpecCoins == InitCoins /\ [][NextCoins]_vars

(***************************************************************************)
(* Game loop: the player's physics tick and the end of the run             *)
(*                                                                         *)
(* SpecAccel: the part of the loop of runner.rs that moves the player, the *)
(* game_over countdown, the key events, the forces, update_pos, update_vel,*)
(* flip, the terrain landing check and the reset_accel that ends the       *)
(* iteration. The forces of the tick are those of apply_terrain_forces on  *)
(* asphalt; the answer of the landing check is an input, and a landing can *)
(* only fail for a descending player whose hitbox holds the ground point.  *)
(***************************************************************************)
GameOverDelay == 120

AccelKeys == { "none", "down", "up" }
AccelAngles == { 0, 30 }

\* a countdown that leaves the loop one iteration early
game_over_countdown_early(g) ==
    IF g.game_over
    THEN [g EXCEPT !.game_over_timer = @ - 1,
                   !.exit = (g.game_over_timer - 1 <= 1)]
    ELSE g

\* the countdown at the start of an unpaused iteration: the loop's locals
\* after it, exit set when the loop breaks
game_over_countdown(g) ==
    IF g.game_over
    THEN [g EXCEPT !.game_over_timer = @ - 1,
                   !.exit = (g.game_over_timer - 1 = 0)]
    ELSE g

\* the player after a key event of the unpaused loop
handle_key(p, key, ground) ==
    CASE key = "down" -> IF p.jumping THEN resume_flipping(p)
                         ELSE jump(p, ground, 0).player
      [] key = "up" -> stop_flipping(p)
      [] OTHER -> p

\* the player after the forces and the integration of one iteration
move_player(p, ground, angle, game_over) ==
    flip(update_vel(update_pos(apply_terrain_forces(p, angle, ground, "Asphalt",
                                                    p.power_up),
                               ground, angle, game_over),
                    game_over))

\* whether the landing check can fail for this player
can_crash(p, ground) == p.velocity[2] <= 0 /\ contains_point(p.hitbox, ground)

InitAccel ==
    /\ \E s \in PlayerStarts : player = PlayerNew(Square(s[1], s[2]), PlayerMass)
    /\ obstacle = ObstacleNew(Square(ObstacleAt[1], ObstacleAt[2]), 50, "Statue")
    /\ coin = CoinNew(Square(250, 350))
    /\ power = PowerNew(Square(400, 350), "Shield")
    /\ call = Called("new", FALSE, -1, FALSE, 0, Origin)
    /\ calls = [collide_coin |-> 0, collect |-> 0]
    /\ steps = 0
    /\ tick = NoTick
    /\ rect = NoRect
    /\ game = [stage |-> "accel", game_over |-> FALSE,
               game_over_timer |-> GameOverDelay, game_paused |-> FALSE,
               exit |-> FALSE, tick |-> [kind |-> "start", landed |-> TRUE]]

\* one iteration of the loop while the game is paused
AccelPaused ==
    /\ game.stage = "accel" /\ ~game.exit /\ game.game_paused
    /\ \E resume \in BOOLEAN : game' = [game EXCEPT !.game_paused = ~resume]
    /\ LoopUnchanged

\* one iteration of the loop while the game is not paused
AccelTick ==
    /\ game.stage = "accel" /\ ~game.exit /\ ~game.game_paused
    /\ steps < MaxSteps
    /\ steps' = steps + 1
    /\ LET counted == game_over_countdown(game)
       IN  IF counted.exit
           THEN /\ game' = [counted EXCEPT !.tick = [kind |-> "exit", landed |-> TRUE]]
                /\ player' = player
           ELSE \E ground \in TickGrounds(player), angle \in AccelAngles,
                   key \in AccelKeys, escape \in BOOLEAN, landed \in BOOLEAN :
                   LET moved == move_player(handle_key(player, key, ground),
                                            ground, angle, counted.game_over)
                   IN  /\ ~landed => can_crash(moved, ground)
                       /\ player' = IF landed THEN reset_accel(moved) ELSE moved
                       /\ game' = [counted EXCEPT
                                      !.game_paused = escape,
                                      !.game_over = IF landed THEN @ ELSE TRUE,
                                      !.tick = [kind |-> "unpaused",
                                                landed |-> landed]]
    /\ UNCHANGED << obstacle, coin, power, call, calls, tick, rect >>

NextAccel ==
    \/ AccelPaused
    \/ AccelTick

SpecAccel == InitAccel /\ [][NextAccel]_vars

(***************************************************************************)
(* SpecGameOver: the locals of the loop that end the run, game_over,       *)
(* game_over_timer, game_paused and the break out of the loop, over whole  *)
(* runs. Each iteration draws its events and the answer of the terrain     *)
(* landing check; the record of the iteration counts the unpaused          *)
(* iterations begun with game_over set.                                    *)
(***************************************************************************)
OverRecord(kind, g, counts) ==
    [kind |-> kind, was_over |-> g.game_over,
     since |-> IF counts /\ g.game_over THEN g.tick.since + 1 ELSE g.tick.since]

InitGameOver ==
    /\ player = PlayerNew(Square(210, 330), PlayerMass)
    /\ obstacle = ObstacleNew(Square(ObstacleAt[1], ObstacleAt[2]), 50, "Statue")
    /\ coin = CoinNew(Square(250, 350))
    /\ power = PowerNew(Square(400, 350), "Shield")
    /\ call = Called("new", FALSE, -1, FALSE, 0, Origin)
    /\ calls = [collide_coin |-> 0, collect |-> 0]
    /\ steps = 0
    /\ tick = NoTick
    /\ rect = NoRect
    /\ game = [stage |-> "over", game_over |-> FALSE,
               game_over_timer |-> GameOverDelay, game_paused |-> FALSE,
               exit |-> FALSE,
               tick |-> [kind |-> "start", was_over |-> FALSE, since |-> 0]]

\* one iteration of the loop while the game is paused: a resume key, a key
\* that leaves the run, or nothing
OverPaused ==
    /\ game.stage = "over" /\ ~game.exit /\ game.game_paused
    /\ \E event \in { "none", "resume", "leave" } :
          game' = [game EXCEPT
                      !.game_paused = IF event = "resume" THEN FALSE ELSE @,
                      !.exit = (event = "leave"),
                      !.tick = OverRecord(IF event = "leave" THEN "leave" ELSE "paused",
                                          game, FALSE)]
    /\ LoopUnchanged

\* one iteration of the loop while the game is not paused
OverTick ==
    /\ game.stage = "over" /\ ~game.exit /\ ~game.game_paused
    /\ LET counted == game_over_countdown(game)
       IN  IF counted.exit
           THEN game' = [counted EXCEPT !.tick = OverRecord("timer", game, TRUE)]
           ELSE \E quit \in BOOLEAN, escape \in BOOLEAN, landed \in BOOLEAN :
                   game' = IF quit
                           THEN [counted EXCEPT
                                    !.exit = TRUE,
                                    !.tick = OverRecord("quit", game, TRUE)]
                           ELSE [counted EXCEPT
                                    !.game_paused = escape,
                                    !.game_over = IF landed THEN @ ELSE TRUE,
                                    !.tick = OverRecord("unpaused", game, TRUE)]
    /\ LoopUnchanged

NextGameOver ==
    \/ OverPaused
    \/ OverTick

SpecGameOver == InitGameOver /\ [][NextGameOver]_vars

(***************************************************************************)
(* Claims                                                                  *)
(***************************************************************************)
\* q is num / den truncated toward zero (den > 0)
WithinTrunc(q, num, den) == Abs(q * den - num) < den

\* the last call was collide_obstacle and nearest_side reported a side
\* contact / a top or bottom contact
SideContact == call.op = "collide_obstacle" /\ call.side \in {1, 3}
TopContact == call.op = "collide_obstacle" /\ call.side \in {0, 2}

\* C1: over collide_coin calls alone on a coin, the first call returns true
\* and every later call returns false; the coin is uncollected before the
\* first call and collected after it and after every further call.
C1_CollectOnce ==
    calls.collect = 0 =>
        /\ coin.collected <=> calls.collide_coin > 0
        /\ call.op = "collide_coin" =>
              /\ call.ret <=> calls.collide_coin = 1
              /\ call.coin.collected <=> calls.collide_coin > 1

C1_Witness ==
    /\ calls.collect = 0
    /\ calls.collide_coin >= 2
    /\ call.op = "collide_coin"
    /\ ~call.ret
    /\ coin.collected

\* C2: collide_power on an uncollected power sets power_up to that power's
\* type whatever was active before, marks the power collected and returns
\* true; on a collected power it returns false and leaves power_up as it was.
C2_PowerOverride ==
    call.op = "collide_power" =>
        IF ~call.power.collected
        THEN /\ call.ret
             /\ player.power_up = call.power.power_type
             /\ power.collected
        ELSE /\ ~call.ret
             /\ player.power_up = call.player.power_up
             /\ power.collected

C2_Witness ==
    /\ call.op = "collide_power"
    /\ call.ret
    /\ call.player.power_up \notin { "None", call.power.power_type }
    /\ player.power_up = call.power.power_type

\* C3: a side contact with a Statue or Chest, without Shield and with
\* collided false, returns true, sets collided, overwrites both velocities
\* with the values computed from the player's incoming velocity, and snaps
\* the player's x to obstacle.x - 1.05 * TILE_SIZE with the hitbox on it.
C3_SideCollision ==
    ( /\ SideContact
      /\ call.obstacle.obstacle_type \in { "Statue", "Chest" }
      /\ call.player.power_up # "Shield"
      /\ ~call.obstacle.collided )
    => LET mp == call.player.mass
           mo == call.obstacle.mass
           vx == call.player.velocity[1]
           vy == IF call.player.jumping THEN call.player.velocity[2] ELSE 0
       IN  /\ call.ret
           /\ obstacle.collided
           /\ WithinTrunc(obstacle.velocity[1], 4 * mp * vx, mp + mo)
           /\ WithinTrunc(obstacle.velocity[2], 4 * mp * vy, mp + mo)
           /\ WithinTrunc(player.velocity[1], 2 * (mp - mo) * vx, mp + mo)
           /\ WithinTrunc(player.velocity[2], 2 * (mp - mo) * vy, mp + mo)
           /\ 100 * player.pos[1] = 100 * Fx(call.obstacle.hitbox.x) - 105 * Fx(TILE_SIZE)
           /\ player.hitbox = Square(AsI32(player.pos[1]), AsI32(player.pos[2]))

C3_Witness ==
    /\ SideContact
    /\ call.obstacle.obstacle_type = "Chest"
    /\ ~call.obstacle.collided
    /\ call.player.velocity[1] # 0
    /\ call.ret
    /\ obstacle.collided
    /\ player.hitbox.x = call.obstacle.hitbox.x - 105

\* C4: a side contact returns false and changes neither the player nor the
\* obstacle when the player holds the Shield, or collided is already true,
\* or the obstacle is a Balloon.
C4_SideNoOp ==
    ( /\ SideContact
      /\ \/ call.player.power_up = "Shield"
         \/ call.obstacle.collided
         \/ call.obstacle.obstacle_type = "Balloon" )
    => /\ ~call.ret
       /\ player = call.player
       /\ obstacle = call.obstacle

C4_Witness ==
    /\ SideContact
    /\ call.player.power_up = "Shield"
    /\ call.obstacle.obstacle_type = "Statue"
    /\ ~call.obstacle.collided
    /\ call.player.velocity[1] # 0
    /\ ~call.ret

\* C5: the velocities after the Statue/Chest side collision are those of the
\* 1-D elastic collision with the obstacle at rest: player
\* (m_p - m_o) / (m_p + m_o) * v, obstacle 2 * m_p / (m_p + m_o) * v; with
\* equal masses the player stops and the obstacle takes v.
C5_Elastic ==
    ( /\ SideContact
      /\ call.ret )
    => LET mp == call.player.mass
           mo == call.obstacle.mass
           vx == call.player.velocity[1]
           vy == IF call.player.jumping THEN call.player.velocity[2] ELSE 0
       IN  /\ WithinTrunc(player.velocity[1], (mp - mo) * vx, mp + mo)
           /\ WithinTrunc(player.velocity[2], (mp - mo) * vy, mp + mo)
           /\ WithinTrunc(obstacle.velocity[1], 2 * mp * vx, mp + mo)
           /\ WithinTrunc(obstacle.velocity[2], 2 * mp * vy, mp + mo)
           /\ mp = mo => player.velocity = << 0, 0 >> /\ obstacle.velocity = << vx, vy >>

\* rotation theta in [0, 2*PI) within 6 * OMEGA of upright on either side
NearUpright(theta) == theta < 6 * OMEGA \/ theta > FullTurn - 6 * OMEGA

\* C6: descending onto a Chest (no side contact) puts the player on the
\* chest (y = obstacle.y - 0.95 * TILE_SIZE, vel_y = 0, not jumping,
\* omega = 0, obstacle collided); the call returns false and resets theta to
\* 0 exactly when theta is within 6 * OMEGA of upright, and true otherwise.
C6_ChestLanding ==
    ( /\ TopContact
      /\ call.obstacle.obstacle_type = "Chest"
      /\ call.player.velocity[2] < 0
      /\ call.player.theta >= 0 /\ call.player.theta < FullTurn )
    => /\ 100 * player.pos[2] = 100 * Fx(call.obstacle.hitbox.y) - 95 * Fx(TILE_SIZE)
       /\ player.velocity[2] = 0
       /\ ~player.jumping
       /\ player.omega = 0
       /\ obstacle.collided
       /\ call.ret <=> ~NearUpright(call.player.theta)
       /\ player.theta = (IF NearUpright(call.player.theta) THEN 0 ELSE call.player.theta)

\* C7: a top or bottom contact returns true for a Statue and false for a
\* Balloon while the player descends, and returns false and changes nothing
\* for every obstacle type while the player does not descend.
C7_TopContact ==
    TopContact =>
        IF call.player.velocity[2] < 0
        THEN /\ call.obstacle.obstacle_type = "Statue" => call.ret
             /\ call.obstacle.obstacle_type = "Balloon" => ~call.ret
        ELSE /\ ~call.ret
             /\ player = call.player
             /\ obstacle = call.obstacle

C7_Witness ==
    /\ TopContact
    /\ call.player.velocity[2] < 0
    /\ call.obstacle.obstacle_type = "Statue"
    /\ call.ret

\* theta within 6 * OMEGA of the terrain angle, modulo 2*PI
InBand(theta, angle) ==
    LET d == (theta - angle) % FullTurn
    IN  d < 6 * OMEGA \/ d > FullTurn - 6 * OMEGA

\* C8: check_player_upright returns true when the hitbox does not contain
\* the ground point; when it does, it returns true exactly when theta is
\* within 6 * OMEGA of the terrain angle modulo 2*PI; it leaves the player
\* as it was.
C8_UprightBand ==
    call.op = "check_player_upright" =>
        /\ call.ret <=> \/ ~contains_point(call.player.hitbox, call.ground)
                        \/ InBand(call.player.theta, call.angle)
        /\ player = call.player

\* C9: the collided flag of the obstacle and the collected flags of the coin
\* and the power never go from true back to false, whatever the operation.
C9_FlagsMonotonic ==
    /\ call.obstacle.collided => obstacle.collided
    /\ call.coin.collected => coin.collected
    /\ call.power.collected => power.collected

C9_Witness ==
    /\ call.op \in { "coin.collect", "collide_coin", "camera_adj", "travel_update" }
    /\ call.coin.collected
    /\ coin.collected

\* C10: right after update_vel the player's vel_x is in [1, 8] while
\* game_over is false and in [-5, 8] while it is true, its vel_y is in
\* [-15, 40]; both components of an obstacle's velocity are in [-20, 20].
C10_VelocityBounds ==
    /\ call.op = "update_vel" =>
          /\ player.velocity[1] >= (IF call.game_over THEN Fx(-5) ELSE Fx(1))
          /\ player.velocity[1] <= Fx(8)
          /\ player.velocity[2] >= Fx(-15)
          /\ player.velocity[2] <= Fx(40)
    /\ call.op = "obstacle.update_vel" =>
          \A i \in 1..2 : obstacle.velocity[i] >= Fx(-20) /\ obstacle.velocity[i] <= Fx(20)

C10_Witness ==
    /\ call.op = "update_vel"
    /\ ~call.game_over
    /\ call.player.velocity[1] + call.player.accel[1] < Fx(1)
    /\ call.player.velocity[2] + call.player.accel[2] > Fx(40)
    /\ player.velocity = << Fx(1), Fx(40) >>

\* the tick under way started from the resting player of the scenario: mass
\* 3.0, velocity (0, 0), no accumulated acceleration, the ground point inside
\* the hitbox, level Asphalt, no power-up, game not over
RestingTick ==
    /\ tick.stage = "done"
    /\ tick.start.mass = 3
    /\ tick.start.velocity = << 0, 0 >>
    /\ tick.start.accel = << 0, 0 >>
    /\ contains_point(tick.start.hitbox, tick.ground)
    /\ tick.angle = 0
    /\ tick.terrain_type = "Asphalt"
    /\ tick.power_up = "None"
    /\ ~tick.game_over

\* C11 as stated: after apply_terrain_forces, update_vel(game_over = false)
\* and update_pos on the resting player, the vertical velocity is 0 and the
\* horizontal velocity is still 0.
C11_TickKeepsRest ==
    RestingTick => player.velocity[2] = 0 /\ player.velocity[1] = 0

\* C11 amended: after apply_terrain_forces, update_vel(game_over = false) and
\* update_pos on the resting player, the vertical velocity is 0 (gravity and
\* the normal force cancel, no friction acts) and the horizontal velocity is
\* 1.0, the lower bound update_vel clamps to while the game is not over.
C11_TickRest ==
    RestingTick => player.velocity[2] = 0 /\ player.velocity[1] = Fx(1)

C11_Witness ==
    /\ RestingTick
    /\ call.op = "update_pos"
    /\ player.velocity = << Fx(1), 0 >>

\* the corners the stored fields of r stand for
FieldCorners(r) ==
    << [x |-> r.x, y |-> r.y], [x |-> r.x + r.w, y |-> r.y],
       [x |-> r.x + r.w, y |-> r.y + r.h], [x |-> r.x, y |-> r.y + r.h] >>

\* C12: a PhysRect that is never rotated has, after new and after every
\* set_x, set_y, set_height, resize, offset, reposition and center_on, the
\* corners coords = [(x, y), (x + w, y), (x + w, y + h), (x, y + h)].
C12_CornersConsistent == rect.r.coords = FieldCorners(rect.r)

\* a size and a position as the clamping rules say they are stored
StoredSize(val) == IF val = 0 THEN 1 ELSE IF val > MaxIntValue THEN MaxIntValue ELSE val
StoredPosition(val) == Clamp(val, MinIntValue, MaxIntValue)

C14_Total ==
    rect.op \in { "set_x", "set_y", "offset", "reposition", "resize" } =>
        /\ ~rect.overflowed
        /\ ~rect.panicked
        /\ rect.op = "resize" =>
              /\ rect.r.w = StoredSize(rect.args[1])
              /\ rect.r.h = StoredSize(rect.args[2])

\* C15: on a PhysRect built by new(x, y, w, h) and not turned,
\* contains_point((px, py)) is true exactly when x <= px < x + w and
\* y <= py < y + h: the left and top edges are inside, the right and bottom
\* edges outside.
C15_ContainsPoint ==
    rect.op = "contains_point" /\ rect.turns = << >> /\ ~rect.angled =>
        rect.ret = ( /\ rect.fresh[1] <= rect.args[1]
                     /\ rect.args[1] < rect.fresh[1] + rect.fresh[3]
                     /\ rect.fresh[2] <= rect.args[2]
                     /\ rect.args[2] < rect.fresh[2] + rect.fresh[4] )

\* the top left corner was found inside
C15_Witness ==
    /\ rect.op = "contains_point"
    /\ rect.turns = << >>
    /\ ~rect.angled
    /\ rect.args = << rect.fresh[1], rect.fresh[2] >>
    /\ rect.ret

\* C16: A.has_intersection(B) and B.has_intersection(A) return the same
\* value for overlapping, nested, identical, touching and disjoint A and B.
C16_IntersectionSymmetric ==
    rect.op = "has_intersection" => rect.ret = rect.swapped

\* b touches the bottom right corner of a, and both tests found them
\* to intersect
C16_Witness ==
    /\ rect.op = "has_intersection"
    /\ rect.turns = << >>
    /\ rect.b.coords[1] = rect.a.coords[3]
    /\ rect.ret
    /\ rect.swapped

\* a was built by new and then only rotated, by t and then by -t
RoundTrip ==
    /\ ~rect.angled
    /\ Len(rect.turns) = 2
    /\ rect.turns[2] = 0 - rect.turns[1]

\* C17: after rotate(t) and rotate(-t) on a PhysRect built by new(x, y, w, h)
\* every corner is back where new put it, up to the rounding of the two
\* casts to integer coordinates (two units in x and in y), and so is the
\* reference (x, y).
C17_RotateRoundTrip ==
    RoundTrip =>
        LET built == GeoRect(rect.fresh)
        IN  /\ \A i \in 1..4 :
                  /\ Abs(rect.a.coords[i].x - built.coords[i].x) <= 2
                  /\ Abs(rect.a.coords[i].y - built.coords[i].y) <= 2
            /\ Abs(rect.a.x - built.x) <= 2
            /\ Abs(rect.a.y - built.y) <= 2

\* C18: after rotate(a) and rotate(b) on a PhysRect built by new, angle() is
\* (a + b) mod 2*PI, a value in [0, 2*PI); after set_angle(t), angle() is t.
C18_AngleAccumulates ==
    /\ ~rect.angled /\ Len(rect.turns) = 2 =>
          /\ rect.a.theta = (rect.turns[1] + rect.turns[2]) % FullTurn
          /\ rect.a.theta >= 0
          /\ rect.a.theta < FullTurn
    /\ rect.op = "set_angle" => rect.a.theta = rect.args[1]

\* the parameter values a power sets while it is active, every parameter it
\* does not set at its default
PowerValues(p) ==
    CASE p = "SpeedBoost" -> [PowerDefaults EXCEPT !.player_speed_adjust = Fx(5)]
      [] p = "BouncyShoes" -> [PowerDefaults EXCEPT !.player_jump_change = FxRatio(3, 10)]
      [] p = "LowerGravity" ->
            [PowerDefaults EXCEPT !.player_accel_rate = Fx(-5),
                                  !.player_jump_change = FxRatio(2, 10)]
      [] p = "Shield" -> [PowerDefaults EXCEPT !.shielded = TRUE]
      [] OTHER -> PowerDefaults

\* the last iteration was unpaused and picked up at least one power-up
PickedUp == game.stage = "loop" /\ game.tick.kind = "unpaused" /\ game.tick.picked # << >>

\* the last power-up picked up in the last iteration
LastPicked == game.tick.picked[Len(game.tick.picked)]

\* the last iteration picked up a power-up while an earlier one was still
\* counting down (picked up in an earlier iteration or earlier in this one)
Overrode ==
    /\ PickedUp
    /\ \/ game.tick.before_power # "None" /\ game.tick.before_running
       \/ Len(game.tick.picked) >= 2

\* C19: when power B is picked up while power A is still counting down, then
\* after that iteration's power handling active_power is B, the countdown was
\* restarted at 360 (and has counted its first tick), B's parameter values
\* are in effect and every parameter B does not set is at its default
C19_Override ==
    Overrode =>
        /\ game.active_power = LastPicked
        /\ game.tick.collected_timer = PowerDuration
        /\ game.power_timer = PowerDuration - 1
        /\ PowerParams(game) = PowerValues(LastPicked)

\* a Shield picked up while LowerGravity still had ticks left
C19_Witness ==
    /\ Overrode
    /\ game.tick.before_power = "LowerGravity"
    /\ game.tick.before_running
    /\ LastPicked = "Shield"
    /\ game.shielded

\* the last iteration was unpaused and picked up nothing
Uncollected == game.stage = "loop" /\ game.tick.kind = "unpaused" /\ game.tick.picked = << >>

\* one step of the loop, seen from both of its ends (the step is an unpaused
\* iteration when it starts with game_paused false)
ExpiryStep ==
    /\ game.power_timer \in 0..PowerDuration
    /\ game'.power_timer \in 0..PowerDuration
    /\ ~game.game_paused /\ game'.tick.picked = << >> =>
          IF game.power_timer > 0
          THEN game'.power_timer = game.power_timer - 1
          ELSE /\ game'.power_timer = 0
               /\ game'.active_power = "None"
               /\ PowerParams(game') = PowerDefaults
    /\ game.active_power = "None" => PowerParams(game) = PowerDefaults
    /\ game'.active_power = "None" => PowerParams(game') = PowerDefaults

\* C20: power_timer stays in 0..360; an unpaused iteration without a pickup
\* takes one off a positive power_timer; the unpaused iteration that finds
\* it at 0 leaves active_power None and the four parameters at their
\* defaults; whenever active_power is None the parameters are at their defaults
C20_Expiry == [][ExpiryStep]_vars

\* a LowerGravity power-up ran out in the last iteration
C20_Witness ==
    /\ Uncollected
    /\ ~game.tick.before_running
    /\ game.tick.before_power = "LowerGravity"
    /\ game.active_power = "None"
    /\ game.power_timer = 0

\* C21: from_center(c, w, h) returns a rectangle of the clamped size whose
\* center() is c and whose (x, y) is its first corner
C21_FromCenter ==
    rect.op = "center" /\ rect.made = "from_center" /\ ~rect.turned =>
        /\ rect.r.w = StoredSize(rect.args[3])
        /\ rect.r.h = StoredSize(rect.args[4])
        /\ rect.ret = [x |-> rect.args[1], y |-> rect.args[2]]
        /\ rect.r.x = rect.r.coords[1].x
        /\ rect.r.y = rect.r.coords[1].y

\* the largest and the smallest y over the four corners
MaxCornerY(r) == CHOOSE y \in {r.coords[i].y : i \in 1..4} : \A i \in 1..4 : r.coords[i].y <= y
MinCornerY(r) == CHOOSE y \in {r.coords[i].y : i \in 1..4} : \A i \in 1..4 : r.coords[i].y >= y

\* C22: bottom() returns a corner with the largest y of the four corners,
\* top() one with the smallest, and bottom().y > top().y for every rectangle
\* of height >= 1
C22_TopBottom ==
    /\ rect.op = "bottom" =>
          /\ rect.ret.y = MaxCornerY(rect.r)
          /\ rect.r.h >= 1 => rect.ret.y > RectTop(rect.r).y
    /\ rect.op = "top" => rect.ret.y = MinCornerY(rect.r)

\* C23: apply_bounce changes the player's accumulated acceleration only
\* while the two hitboxes intersect, and the force it applies is upward:
\* accel_x is unchanged and accel_y does not decrease
C23_BounceUpward ==
    call.op = "apply_bounce" =>
        /\ ~has_intersection(call.player.hitbox, call.obstacle.hitbox) =>
              player.accel = call.player.accel
        /\ player.accel[1] = call.player.accel[1]
        /\ player.accel[2] >= call.player.accel[2]

\* two upright hitboxes of equal size at the same y, a reaching over the
\* left edge of b only
FromLeft(a, b) ==
    /\ a.theta = 0 /\ b.theta = 0 /\ a.w = b.w /\ a.h = b.h
    /\ a.y = b.y
    /\ a.x < b.x /\ b.x <= a.x + a.w

\* a directly above b, its bottom edge on or just below the top edge of b
DirectlyAbove(a, b) ==
    /\ a.theta = 0 /\ b.theta = 0 /\ a.w = b.w /\ a.h = b.h
    /\ a.x = b.x
    /\ a.y < b.y /\ b.y <= a.y + a.h

\* C24: nearest_side returns 0..3 for top, right, bottom, left: for a player
\* that reaches an equal-sized obstacle at the same y from the left it is 1
\* or 3 (collide_obstacle takes the side branch), for a player directly
\* above the obstacle it is 0 or 2
C24_NearestSide ==
    call.op = "collide_obstacle" =>
        /\ call.side \in 0..3
        /\ FromLeft(call.player.hitbox, call.obstacle.hitbox) => call.side \in {1, 3}
        /\ DirectlyAbove(call.player.hitbox, call.obstacle.hitbox) => call.side \in {0, 2}

\* apply_terrain_forces has just run on tick.start
AfterForces == tick.stage = "vel"

\* C25: apply_terrain_forces on a body that contains the ground point and
\* moves downward (vel_y < 0) leaves vel_y = 0, vel_x as it was, the y
\* position at ground.y - 0.95 * TILE_SIZE, the hitbox aligned to the
\* position and still containing the ground point; on a body that does not
\* contain the ground point it only takes g off accel_y
C25_TerrainSnap ==
    AfterForces =>
        /\ contains_point(tick.start.hitbox, tick.ground) /\ tick.start.velocity[2] < 0 =>
              /\ player.velocity = << tick.start.velocity[1], 0 >>
              /\ player.pos[2] * 100 = Fx(tick.ground.y) * 100 - 95 * Fx(TILE_SIZE)
              /\ player.hitbox = Square(AsI32(player.pos[1]), AsI32(player.pos[2]))
              /\ contains_point(player.hitbox, tick.ground)
        /\ ~contains_point(tick.start.hitbox, tick.ground) =>
              player = [tick.start EXCEPT
                           !.accel = << tick.start.accel[1],
                                        tick.start.accel[2]
                                            - gravity(tick.terrain_type, tick.power_up) >>]

\* a falling player was lifted onto a ground point in the middle of its
\* hitbox
C25_Witness ==
    /\ AfterForces
    /\ contains_point(tick.start.hitbox, tick.ground)
    /\ tick.start.velocity[2] < 0
    /\ tick.ground.y = tick.start.hitbox.y + 50
    /\ player.hitbox.y = tick.start.hitbox.y - 45
    /\ player.velocity[2] = 0

\* the last call was a jump with the ground point of the successful jump
\* made just before it
SecondJump ==
    /\ tick.stage = "jumps" /\ Len(tick.log) >= 2
    /\ tick.log[Len(tick.log) - 1].ret
    /\ tick.log[Len(tick.log)].ground = tick.log[Len(tick.log) - 1].ground

\* C26: jump returns true exactly when the hitbox contains the ground
\* point, and a call that returns false changes nothing; a second call with
\* the same ground point right after a successful one returns false, so the
\* one impulse of the first call is all that was accumulated
C26_JumpOnce ==
    call.op = "jump" =>
        /\ call.ret = contains_point(call.player.hitbox, call.ground)
        /\ ~call.ret => player = call.player
        /\ SecondJump => ~call.ret /\ player = call.player

\* a second jump on the ground point of a successful one was refused
C26_Witness ==
    /\ call.op = "jump"
    /\ SecondJump
    /\ ~call.ret
    /\ player.jumping
    /\ player.hitbox.y + TILE_SIZE = call.ground.y

\* C27: in every Player state omega is OMEGA exactly when flipping is true
\* and 0 exactly when it is false; flip changes theta only while flipping
\* is true and keeps theta in [0, 2*PI)
C27_OmegaMatchesFlipping ==
    /\ player.flipping <=> player.omega = OMEGA
    /\ ~player.flipping <=> player.omega = 0
    /\ call.op = "flip" =>
          /\ ~call.player.flipping => player.theta = call.player.theta
          /\ call.player.theta >= 0 /\ call.player.theta < FullTurn =>
                player.theta >= 0 /\ player.theta < FullTurn

\* the last unpaused iteration's collection pass removed a coin
PassRemoved == game.stage = "coins" /\ game.tick.kind = "unpaused" /\ game.tick.removed.any

\* C28: the coin collection pass removes a coin only if that coin was
\* collected in the pass (it touched the player and was uncollected before),
\* so never one that is uncollected and away from the player; coin_count
\* goes up by exactly one per coin collected
C28_CoinPass ==
    /\ PassRemoved => game.tick.removed.hit /\ ~game.tick.removed.was_collected
    /\ game.stage = "coins" /\ game.tick.kind = "unpaused" =>
          game.coin_count = game.tick.before_count + game.tick.collected

(***************************************************************************)
(* C29: in the game loop every unpaused tick ends by clearing the player's *)
(* accumulated force: whenever an iteration of the running loop begins,    *)
(* the player's accumulated acceleration is (0, 0), also after a tick      *)
(* whose terrain landing check failed and on the ticks after game_over was *)
(* set.                                                                    *)
(***************************************************************************)
C29_AccelCleared ==
    (game.stage = "accel" /\ ~game.exit) => player.accel = << 0, 0 >>

(***************************************************************************)
(* C30: in the game loop game_over latches: once true it is never false    *)
(* again during the run; game_over_timer goes down by one on each later    *)
(* unpaused tick; and the loop leaves through the timer on the 120th       *)
(* unpaused tick after game_over was set, never earlier, and the run never *)
(* goes on past that tick.                                                 *)
(***************************************************************************)
C30_GameOverLatches ==
    game.stage = "over" =>
        /\ game.tick.was_over => game.game_over
        /\ game.game_over =>
              game.game_over_timer = GameOverDelay - game.tick.since
        /\ game.tick.kind = "timer" => game.tick.since = GameOverDelay
        /\ game.tick.since = GameOverDelay =>
              game.exit /\ game.tick.kind = "timer"
        /\ game.tick.since <= GameOverDelay

\* the run has ended through the timer, 120 unpaused ticks after a failed
\* landing
C30_Witness ==
    /\ game.stage = "over"
    /\ game.exit
    /\ game.tick.kind = "timer"
    /\ game.game_over
    /\ game.game_over_timer = 0

====
